---- MODULE Spec2Model ----
(***************************************************************************)
(* Model of the DF-World legends importer (build.py) and of the process    *)
(* that invokes it (routes/worlds.py, upload).                             *)
(*                                                                         *)
(* Spec      : one run of build.py as a child process of upload().         *)
(* SpecSan   : sanitize_xml_file as a chunk loop over a character sequence.*)
(* SpecXml   : iterparse and stream_elements over a tree of elements.      *)
(* SpecImp   : the callbacks of the passes over the rows of the tables.    *)
(* SpecSto   : run_import over the tables, run after run.                  *)
(* SpecWld   : the requests on the master table of the worlds.             *)
(* SpecGraph : one request for the relationship graph of a figure.         *)
(***************************************************************************)
EXTENDS Integers, Sequences, FiniteSets, TLC

(***************************************************************************)
(* Bounds                                                                  *)
(***************************************************************************)
\* records the two input files hold together
MaxRecs == 2
\* rows the store holds before the run
MaxOld == 1

(***************************************************************************)
(* State of one run                                                        *)
(***************************************************************************)
VARIABLES
  dir,         \* names of the *.xml files in BASE_DIR
  LEGENDS_FILE,       \* module global, None until find_xml_files sets it
  LEGENDS_PLUS_FILE,  \* module global, None until find_xml_files sets it
  pc,          \* position of the child process in run_import / __main__
  passIdx,     \* index of the pass being streamed (0 outside the passes)
  recs,        \* callbacks made by the current pass
  temps,       \* sanitized temp files that exist on disk
  created,     \* sanitized temp files this run has created
  legends_clean,       \* local of run_import, None until assigned
  legends_plus_clean,  \* local of run_import, None until assigned
  store,       \* rows durable in world.db
  store0,      \* rows durable in world.db when the run started
  conn,        \* rows as the import connection sees them (open transaction)
  dbLog,       \* database calls made by the run, in order
  outcome,     \* how run_import ended: "none", "true", "false", "raised"
  failedAt,    \* <<step, pass>> at which the run raised, <<"none", 0>> if not
  exitStatus,  \* exit status of the child: "running", "0", "1", "killed"
  flash        \* what upload() reports: "none", "success", "failed", "timeout"

runVars == <<dir, LEGENDS_FILE, LEGENDS_PLUS_FILE, pc, passIdx,
             recs, temps, created, legends_clean, legends_plus_clean, store,
             store0, conn, dbLog, outcome, failedAt, exitStatus, flash>>

None == "None"

(***************************************************************************)
(* The files find_xml_files can meet                                       *)
(***************************************************************************)
BaseName == "region1-legends.xml"
PlusName == "region1-legends_plus.xml"
OtherName == "notes.xml"
FileNames == {BaseName, PlusName, OtherName}

\* "legends_plus" in name.lower()
HasLegendsPlus(name) == name = PlusName
\* "legends" in name.lower()
HasLegends(name) == name \in {BaseName, PlusName}

\* the file the loop of find_xml_files leaves in LEGENDS_PLUS_FILE
FoundPlus(d) ==
  IF \E f \in d : HasLegendsPlus(f)
  THEN CHOOSE f \in d : HasLegendsPlus(f) ELSE None

\* the file the loop of find_xml_files leaves in LEGENDS_FILE
FoundBase(d) ==
  IF \E f \in d : ~HasLegendsPlus(f) /\ HasLegends(f)
  THEN CHOOSE f \in d : ~HasLegendsPlus(f) /\ HasLegends(f) ELSE None

find_xml_files_or(base, plus) == base # None \/ plus # None

\* return value of find_xml_files
find_xml_files(base, plus) == base # None /\ plus # None

(***************************************************************************)
(* The passes of run_import, in program order                              *)
(***************************************************************************)
PassesFiguresFirst ==
  << [tag |-> "region",             file |-> "base"],
     [tag |-> "underground_region", file |-> "base"],
     [tag |-> "site",               file |-> "base"],
     [tag |-> "artifact",           file |-> "base"],
     [tag |-> "historical_figure",  file |-> "base"],
     [tag |-> "landmass",           file |-> "plus"],
     [tag |-> "mountain_peak",      file |-> "plus"],
     [tag |-> "site_plus",          file |-> "plus"],
     [tag |-> "entity",             file |-> "plus"],
     [tag |-> "historical_event_relationship", file |-> "plus"],
     [tag |-> "historical_event",   file |-> "plus"],
     [tag |-> "written_content",    file |-> "plus"] >>

Passes == << [tag |-> "region",             file |-> "base"],
             [tag |-> "underground_region", file |-> "base"],
             [tag |-> "site",               file |-> "base"],
             [tag |-> "artifact",           file |-> "base"],
             [tag |-> "landmass",           file |-> "plus"],
             [tag |-> "mountain_peak",      file |-> "plus"],
             [tag |-> "site_plus",          file |-> "plus"],
             [tag |-> "entity",             file |-> "plus"],
             [tag |-> "historical_figure",  file |-> "base"],
             [tag |-> "historical_event_relationship", file |-> "plus"],
             [tag |-> "historical_event",   file |-> "plus"],
             [tag |-> "written_content",    file |-> "plus"] >>

NumPasses == Len(Passes)
\* the index of the pass that streams the elements named tag
PassOf(tag) == CHOOSE k \in 1..NumPasses : Passes[k].tag = tag

\* a row written by pass p of this run (p = 0: the world row; p = -1: a row
\* that was in the store before the run)
Row(p, n) == [pass |-> p, n |-> n]
OldRows == {Row(-1, n) : n \in 1..MaxOld}
RowsOf(rows, p) == {r \in rows : r.pass = p}
\* the rows the passes of this run have written
RunRows(rows) == {r \in rows : r.pass >= 1}

(***************************************************************************)
(* Initial state: the child process has just been started by upload()      *)
(***************************************************************************)
RunInit ==
  /\ dir \in SUBSET FileNames
  /\ LEGENDS_FILE = None
  /\ LEGENDS_PLUS_FILE = None
  /\ pc = "find"
  /\ passIdx = 0
  /\ recs = 0
  /\ temps = {}
  /\ created = {}
  /\ legends_clean = None
  /\ legends_plus_clean = None
  /\ store0 \in SUBSET OldRows
  /\ store = store0
  /\ conn = store0
  /\ dbLog = <<>>
  /\ outcome = "none"
  /\ failedAt = <<"none", 0>>
  /\ exitStatus = "running"
  /\ flash = "none"

(***************************************************************************)
(* sanitize_xml_file (build.py:40-71) over a file of bytes                 *)
(***************************************************************************)
\* pieces an input file is put together from
MaxPieces == 3

VARIABLES
  sanIn,        \* bytes of the file at filepath
  chunkSize,    \* bytes one infile.read returns at most
  sanPos,       \* bytes of infile read so far
  sanOut,       \* bytes written to the temp file
  first_chunk,  \* local of sanitize_xml_file
  sanPc         \* "idle", "loop" or "done"

sanVars == <<sanIn, chunkSize, sanPos, sanOut, first_chunk, sanPc>>

VARIABLES
  xmlTag,      \* tag stream_elements is called with
  xmlDoc,      \* the document as the file holds it
  xmlTree,     \* the element tree as the parser holds it now
  xmlPending,  \* ids of the elements whose 'end' event is still to come
  elem,        \* element of the current 'end' event, None between events
  childIdx,    \* children of elem the loop of xml_to_dict has taken
  result,      \* local of xml_to_dict: pairs <<tag, value>> in insertion order
  xmlCalls,    \* the data the callback was called with, in order
  count,       \* local of stream_elements
  xmlPc        \* "idle", "next", "flatten", "callback", "done"

xmlVars == <<xmlTag, xmlDoc, xmlTree, xmlPending, elem, childIdx, result,
             xmlCalls, count, xmlPc>>

VARIABLES
  importer,    \* name of the callback of the pass, None when no pass is modelled
  impQueue,    \* flattened records stream_elements has still to hand over
  db,          \* the tables as the connection sees them: rows in insertion order
  impBefore,   \* db as it was before the last call of the callback
  impRec,      \* data of the last call of the callback
  impDone,     \* data of every call of the callback so far, in order
  impRaised,   \* the last call of the callback raised
  impN         \* calls of the callback so far

impVars == <<importer, impQueue, db, impBefore, impRec, impDone, impRaised,
             impN>>

VARIABLES
  files,          \* the records each pass streams from its input file
  sto,            \* the tables of world.db as committed
  stoConn,        \* the tables as the import connection sees them
  foreign_keys,   \* PRAGMA foreign_keys of the import connection
  in_transaction, \* conn.in_transaction: the connection has an open BEGIN
  stoPc,          \* "idle", "init_db", "clear", "world", "pass", "done", "failed"
  stoPass,        \* index of the pass that streams (0 outside the passes)
  stoPos,         \* records of the pass handed to its callback so far
  stoCommits,     \* conn.commit() calls of this run that have returned
  stoRuns,        \* runs of build.py started on these files
  stoDone         \* runs of build.py on these files that completed

stoVars == <<files, sto, stoConn, foreign_keys, in_transaction, stoPc,
             stoPass, stoPos, stoCommits, stoRuns, stoDone>>

VARIABLES
  worlds,    \* the rows of the table worlds of master.db, as committed
  disk,      \* the world database files that exist
  pending,   \* requests that have read their world row and not yet written
  lastReq,   \* the request that completed last: <<handler, world_id, result>>
  tick       \* flips whenever a request completes

wldVars == <<worlds, disk, pending, lastReq, tick>>

\* the state of one request for the relationship graph of a figure
VARIABLES
  rels,        \* the rows of hf_relationships as <<source_hf, target_hf>>
  figure_id,   \* the figure of the request
  requested,   \* the depth argument of the request
  depth,       \* the depth add_figure reads
  visited,     \* the set visited
  nodes,       \* the assignments nodes[fig_id] = ..., in order
  graph_links, \* the list links
  stack,       \* the calls of add_figure that have not returned
  gPc          \* where graph() is
graphVars == <<rels, figure_id, requested, depth, visited, nodes, graph_links,
               stack, gPc>>

\* what the actions of a run leave alone
notRun == <<sanVars, xmlVars, impVars, stoVars, wldVars, graphVars>>
\* what the actions of the sanitizer leave alone
notSan == <<runVars, xmlVars, impVars, stoVars, wldVars, graphVars>>
\* what the actions of the stream leave alone
notXml == <<runVars, sanVars, impVars, stoVars, wldVars, graphVars>>
\* what the callbacks of the passes leave alone
notImp == <<runVars, sanVars, xmlVars, stoVars, wldVars, graphVars>>
\* what the steps of a run over the tables leave alone
notSto == <<runVars, sanVars, xmlVars, impVars, wldVars, graphVars>>
\* what the requests on the worlds leave alone
notWld == <<runVars, sanVars, xmlVars, impVars, stoVars, graphVars>>
notGraph == <<runVars, sanVars, xmlVars, impVars, stoVars, wldVars>>

Min(a, b) == IF a < b THEN a ELSE b

\* encoding="CP437" and ENCODING='cp437' as bytes
DeclDQ == <<101, 110, 99, 111, 100, 105, 110, 103, 61, 34, 67, 80, 52, 51, 55, 34>>
DeclSQ == <<69, 78, 67, 79, 68, 73, 78, 71, 61, 39, 99, 112, 52, 51, 55, 39>>
\* encoding="UTF-8"
Utf8Decl == <<101, 110, 99, 111, 100, 105, 110, 103, 61, 34, 85, 84, 70, 45, 56, 34>>

\* the pieces: the two declarations, a declaration cut in two, control
\* characters the pattern names, characters next to its ranges, two bytes
\* above 0x7f, a letter
Pieces == << DeclDQ,
             DeclSQ,
             <<101, 110, 99, 111, 100, 105, 110, 103, 61, 34, 67, 80>>,
             <<52, 51, 55, 34>>,
             <<1>>,
             <<0, 8, 11, 12, 14, 31>>,
             <<9, 10, 13, 32, 127>>,
             <<128, 176>>,
             <<120>> >>

RECURSIVE Concat(_)
Concat(ps) == IF ps = <<>> THEN <<>> ELSE Pieces[Head(ps)] \o Concat(Tail(ps))

Inputs ==
  {Concat(ps) : ps \in UNION {[1..n -> 1..Len(Pieces)] : n \in 0..MaxPieces}}

\* infile.read(1024 * 1024), scaled down: sizes that cut a declaration, that
\* hold one and that hold two
ChunkSizes == {3, 17, 40}

\* chunk.decode('cp437', errors='replace'): the bytes below 0x80 decode to
\* the code point of the same number, 0x80 to U+00C7, 0xB0 to U+2591
cp437_decode_char(b) ==
  CASE b < 128 -> b
    [] b = 128 -> 199
    [] b = 176 -> 9617

cp437_decode(bytes) == [i \in 1..Len(bytes) |-> cp437_decode_char(bytes[i])]

\* str.encode('utf-8') of one code point
utf8_encode_char(c) ==
  IF c < 128 THEN <<c>>
  ELSE IF c < 2048 THEN <<192 + (c \div 64), 128 + (c % 64)>>
  ELSE <<224 + (c \div 4096), 128 + ((c \div 64) % 64), 128 + (c % 64)>>

RECURSIVE utf8_encode(_)
utf8_encode(text) ==
  IF text = <<>> THEN <<>>
  ELSE utf8_encode_char(Head(text)) \o utf8_encode(Tail(text))

\* the text a reader of the temp file decodes from its bytes
RECURSIVE utf8_decode(_)
utf8_decode(bytes) ==
  IF bytes = <<>> THEN <<>>
  ELSE IF bytes[1] < 128
       THEN <<bytes[1]>> \o utf8_decode(Tail(bytes))
  ELSE IF bytes[1] < 224
       THEN <<(bytes[1] - 192) * 64 + (bytes[2] - 128)>>
            \o utf8_decode(SubSeq(bytes, 3, Len(bytes)))
  ELSE <<(bytes[1] - 224) * 4096 + (bytes[2] - 128) * 64 + (bytes[3] - 128)>>
       \o utf8_decode(SubSeq(bytes, 4, Len(bytes)))

invalid_chars_no_vt(c) == c \in (0..8) \cup {12} \cup (14..31)

\* invalid_chars (build.py:49): [\x00-\x08\x0b\x0c\x0e-\x1f]
invalid_chars(c) == c \in (0..8) \cup {11, 12} \cup (14..31)

\* invalid_chars.sub('', text, count=1): the first match only
RECURSIVE invalid_chars_sub_once(_)
invalid_chars_sub_once(text) ==
  IF text = <<>> THEN <<>>
  ELSE IF invalid_chars(Head(text)) THEN Tail(text)
  ELSE <<Head(text)>> \o invalid_chars_sub_once(Tail(text))

\* invalid_chars.sub('', text)
RECURSIVE invalid_chars_sub(_)
invalid_chars_sub(text) ==
  IF text = <<>> THEN <<>>
  ELSE IF invalid_chars(Head(text)) THEN invalid_chars_sub(Tail(text))
  ELSE <<Head(text)>> \o invalid_chars_sub(Tail(text))

\* re.IGNORECASE on the letters of the pattern
Lower(c) == IF c \in 65..90 THEN c + 32 ELSE c

\* encoding_pattern (build.py:51) matches text at position i:
\* encoding=["\']CP437["\'] whatever the case of its letters
encoding_pattern(text, i) ==
  /\ i + Len(DeclDQ) - 1 <= Len(text)
  /\ \A j \in 1..Len(DeclDQ) :
       IF DeclDQ[j] = 34
       THEN text[i + j - 1] \in {34, 39}
       ELSE Lower(text[i + j - 1]) = Lower(DeclDQ[j])

\* encoding_pattern.sub('encoding="UTF-8"', text) from position i on: every
\* match, left to right
RECURSIVE encoding_pattern_sub(_, _)
encoding_pattern_sub(text, i) ==
  IF i > Len(text) THEN <<>>
  ELSE IF encoding_pattern(text, i)
       THEN Utf8Decl \o encoding_pattern_sub(text, i + Len(DeclDQ))
  ELSE <<text[i]>> \o encoding_pattern_sub(text, i + 1)

\* the sanitizer is not running
SanIdle ==
  /\ sanIn = <<>>
  /\ chunkSize = 0
  /\ sanPos = 0
  /\ sanOut = <<>>
  /\ first_chunk = TRUE
  /\ sanPc = "idle"

\* build.py:53-54: the files are open, nothing is read yet
SanInit ==
  /\ sanIn \in Inputs
  /\ chunkSize \in ChunkSizes
  /\ sanPos = 0
  /\ sanOut = <<>>
  /\ first_chunk = TRUE
  /\ sanPc = "loop"

\* build.py:58-68: one turn of the loop with a chunk that is not empty
SanChunk ==
  /\ sanPc = "loop"
  /\ sanPos < Len(sanIn)
  /\ LET chunk == SubSeq(sanIn, sanPos + 1, Min(sanPos + chunkSize, Len(sanIn)))
         text == invalid_chars_sub(cp437_decode(chunk))
         fixed == IF first_chunk THEN encoding_pattern_sub(text, 1) ELSE text
     IN /\ sanOut' = sanOut \o utf8_encode(fixed)
        /\ sanPos' = sanPos + Len(chunk)
  /\ first_chunk' = FALSE
  /\ UNCHANGED <<sanIn, chunkSize, sanPc>>
  /\ UNCHANGED notSan

\* build.py:59-60, 70-71: read returns nothing, the loop ends
SanEof ==
  /\ sanPc = "loop"
  /\ sanPos = Len(sanIn)
  /\ sanPc' = "done"
  /\ UNCHANGED <<sanIn, chunkSize, sanPos, sanOut, first_chunk>>
  /\ UNCHANGED notSan

(***************************************************************************)
(* xml_to_dict (build.py:74-96) and stream_elements (build.py:99-121)      *)
(***************************************************************************)
\* children the root element of a document has at most
MaxKids == 3

\* Python values: a str, a dict (its items in insertion order), a list
Str(s) == <<"str", s>>
Dict(pairs) == <<"dict", pairs>>
List(items) == <<"list", items>>
IsStr(v) == v[1] = "str"
IsDict(v) == v[1] = "dict"
IsList(v) == v[1] = "list"

\* k in d, d[k] and d[k] = v on the items of a dict
HasKey(pairs, k) == \E i \in 1..Len(pairs) : pairs[i][1] = k
Lookup(pairs, k) == pairs[CHOOSE i \in 1..Len(pairs) : pairs[i][1] = k][2]
SetKey(pairs, k, v) ==
  IF HasKey(pairs, k)
  THEN [i \in 1..Len(pairs) |->
          IF pairs[i][1] = k THEN <<k, v>> ELSE pairs[i]]
  ELSE Append(pairs, <<k, v>>)
Keys(pairs) == [i \in 1..Len(pairs) |-> pairs[i][1]]

\* an element: its place in the document, its tag, its text (None when it has
\* none) and its children
Element(id, tag, text, kids) ==
  [id |-> id, tag |-> tag, text |-> text, kids |-> kids]

Tags == {"a", "b"}

\* what a child of the root holds: nothing, a text, one child of either
\* tag, or two children of the same tag
Contents ==
  << [text |-> None, kids |-> <<>>],
     [text |-> "1", kids |-> <<>>],
     [text |-> None, kids |-> << [tag |-> "a", text |-> "1"] >>],
     [text |-> None, kids |-> << [tag |-> "b", text |-> None] >>],
     [text |-> None, kids |-> << [tag |-> "a", text |-> "1"],
                                 [tag |-> "a", text |-> "2"] >>] >>

\* the i-th child of the root, with tag t and the c-th content
Child(i, t, c) ==
  Element(<<i>>, t, Contents[c].text,
          [j \in 1..Len(Contents[c].kids) |->
             Element(<<i, j>>, Contents[c].kids[j].tag,
                     Contents[c].kids[j].text, <<>>)])

\* the documents: a root with up to MaxKids children
Documents ==
  UNION { { Element(<<>>, "b", None,
                    [i \in 1..n |-> Child(i, ts[i], cs[i])]) :
            ts \in [1..n -> Tags], cs \in [1..n -> 1..Len(Contents)] } :
          n \in 0..MaxKids }

child_text_none(child) == Str(child.text)

\* child.text or ''
child_text(child) == Str(IF child.text = None THEN "" ELSE child.text)

add_child_overwrite(res, tag, value) == SetKey(res, tag, value)

\* build.py:88-94: the value joins result under tag
add_child(res, tag, value) ==
  IF HasKey(res, tag)
  THEN LET cur == Lookup(res, tag)
           lst == IF IsList(cur) THEN cur[2] ELSE <<cur>>
       IN SetKey(res, tag, List(Append(lst, value)))
  ELSE SetKey(res, tag, value)

RECURSIVE xml_to_dict(_)
RECURSIVE xml_to_dict_loop(_, _, _)

\* build.py:81-86: the value of one child
child_value(child) ==
  IF Len(child.kids) > 0 THEN xml_to_dict(child) ELSE child_text(child)

\* result after the loop of xml_to_dict has taken the children i.. of element
xml_to_dict_loop(element, i, res) ==
  IF i > Len(element.kids) THEN res
  ELSE xml_to_dict_loop(element, i + 1,
         add_child(res, element.kids[i].tag, child_value(element.kids[i])))

xml_to_dict(element) == Dict(xml_to_dict_loop(element, 1, <<>>))

\* ids of the elements with the tag, in the order their 'end' events come:
\* the matching descendants of an element before the element itself
RECURSIVE EndEvents(_, _)
RECURSIVE EndEventsOfKids(_, _, _)
EndEventsOfKids(kids, i, tag) ==
  IF i > Len(kids) THEN <<>>
  ELSE EndEvents(kids[i], tag) \o EndEventsOfKids(kids, i + 1, tag)
EndEvents(element, tag) ==
  EndEventsOfKids(element.kids, 1, tag)
  \o (IF element.tag = tag THEN <<element.id>> ELSE <<>>)

\* the element with the id in a tree that holds it
RECURSIVE Find(_, _)
Find(element, id) ==
  IF element.id = id THEN element
  ELSE LET i == CHOOSE i \in 1..Len(element.kids) :
                  /\ Len(id) >= Len(element.kids[i].id)
                  /\ SubSeq(id, 1, Len(element.kids[i].id)) = element.kids[i].id
       IN Find(element.kids[i], id)

Holds(element, id) ==
  /\ Len(id) >= Len(element.id)
  /\ SubSeq(id, 1, Len(element.id)) = element.id

\* elem.clear()
clear(element) == Element(element.id, element.tag, None, <<>>)

\* build.py:116-118 on the tree: the element is cleared and the siblings
\* before it are deleted from its parent
RECURSIVE after_event(_, _)
after_event(element, id) ==
  IF element.id = id THEN clear(element)
  ELSE IF \E i \in 1..Len(element.kids) : element.kids[i].id = id
  THEN LET i == CHOOSE i \in 1..Len(element.kids) : element.kids[i].id = id
       IN [element EXCEPT !.kids =
             <<clear(element.kids[i])>>
             \o SubSeq(element.kids, i + 1, Len(element.kids))]
  ELSE [element EXCEPT !.kids =
          [i \in 1..Len(element.kids) |->
             IF Holds(element.kids[i], id)
             THEN after_event(element.kids[i], id)
             ELSE element.kids[i]]]

\* no stream is open
XmlIdle ==
  /\ xmlTag = None
  /\ xmlDoc = None
  /\ xmlTree = None
  /\ xmlPending = <<>>
  /\ elem = None
  /\ childIdx = 0
  /\ result = <<>>
  /\ xmlCalls = <<>>
  /\ count = 0
  /\ xmlPc = "idle"

\* build.py:104-105
XmlInit ==
  /\ xmlTag \in Tags
  /\ xmlDoc \in Documents
  /\ xmlTree = xmlDoc
  /\ xmlPending = EndEvents(xmlDoc, xmlTag)
  /\ elem = None
  /\ childIdx = 0
  /\ result = <<>>
  /\ xmlCalls = <<>>
  /\ count = 0
  /\ xmlPc = "next"

\* build.py:107-108: the parser delivers the next 'end' event and
\* xml_to_dict starts on its element
XmlNextEvent ==
  /\ xmlPc = "next"
  /\ xmlPending # <<>>
  /\ elem' = Find(xmlTree, Head(xmlPending))
  /\ childIdx' = 0
  /\ result' = <<>>
  /\ xmlPc' = "flatten"
  /\ UNCHANGED <<xmlTag, xmlDoc, xmlTree, xmlPending, xmlCalls, count>>
  /\ UNCHANGED notXml

\* build.py:78-94: one turn of the loop of xml_to_dict over the children
XmlChild ==
  /\ xmlPc = "flatten"
  /\ childIdx < Len(elem.kids)
  /\ LET child == elem.kids[childIdx + 1]
     IN result' = add_child(result, child.tag, child_value(child))
  /\ childIdx' = childIdx + 1
  /\ UNCHANGED <<xmlTag, xmlDoc, xmlTree, xmlPending, elem, xmlCalls, count,
                 xmlPc>>
  /\ UNCHANGED notXml

\* build.py:96, 109-118: xml_to_dict returns, the callback is called with the
\* dict, the element is cleared and the siblings before it are deleted
XmlCallback ==
  /\ xmlPc = "flatten"
  /\ childIdx = Len(elem.kids)
  /\ xmlCalls' = Append(xmlCalls, Dict(result))
  /\ count' = count + 1
  /\ xmlTree' = after_event(xmlTree, elem.id)
  /\ xmlPending' = Tail(xmlPending)
  /\ elem' = None
  /\ childIdx' = 0
  /\ result' = <<>>
  /\ xmlPc' = "next"
  /\ UNCHANGED <<xmlTag, xmlDoc>>
  /\ UNCHANGED notXml

\* build.py:120-121: the document has ended, stream_elements returns count
XmlEnd ==
  /\ xmlPc = "next"
  /\ xmlPending = <<>>
  /\ xmlPc' = "done"
  /\ UNCHANGED <<xmlTag, xmlDoc, xmlTree, xmlPending, elem, childIdx, result,
                 xmlCalls, count>>
  /\ UNCHANGED notXml

(***************************************************************************)
(* The callbacks of the passes (build.py:216-458): Python values            *)
(***************************************************************************)
\* keys a record of the input carries at most, besides the records that
\* carry every key
MaxKeys == 2
\* records one pass hands to its callback at most
MaxImports == 2

\* Python's None, which sqlite3 stores as NULL, and an int
NoneV == <<"None">>
PyInt(n) == <<"int", n>>

\* bool(v) of a str, dict, list or None
Truthy(v) ==
  /\ v # NoneV
  /\ v # Str("")
  /\ v # Dict(<<>>)
  /\ v # List(<<>>)

\* a or b
Or(a, b) == IF Truthy(a) THEN a ELSE b

get_subscript(data, k) ==
  IF HasKey(data[2], k) THEN Lookup(data[2], k) ELSE <<"KeyError">>

get_empty(data, k) ==
  IF HasKey(data[2], k) THEN Lookup(data[2], k) ELSE Str("")

\* data.get(k)
get(data, k) == IF HasKey(data[2], k) THEN Lookup(data[2], k) ELSE NoneV

\* data.get(k, default)
get_or(data, k, default) ==
  IF HasKey(data[2], k) THEN Lookup(data[2], k) ELSE default

\* what "for x in v" iterates over: the items of a list, the keys of a dict,
\* the characters of a str (the texts that reach a for loop in the records
\* below are at most one character long)
Iter(v) ==
  IF IsList(v) THEN v[2]
  ELSE IF IsDict(v) THEN [i \in 1..Len(v[2]) |-> Str(v[2][i][1])]
  ELSE IF v[2] = "" THEN <<>> ELSE <<v>>

as_list_unwrapped(v) == v

\* if isinstance(v, dict): v = [v]
as_list(v) == IF IsDict(v) THEN List(<<v>>) ELSE v

\* if isinstance(styles, str): styles = [styles]
as_list_str(v) == IF IsStr(v) THEN List(<<v>>) ELSE v

\* the items of "for x in v: if isinstance(x, dict)"
DictItems(v) == SelectSeq(Iter(v), IsDict)

(***************************************************************************)
(* The statements of the callbacks on the tables                           *)
(***************************************************************************)
\* tables whose id column holds every id at most once (schema.sql: every
\* table with an id but the append-only ones)
UniqueId ==
  {"regions", "underground_regions", "sites", "artifacts", "entities",
   "historical_figures", "landmasses", "mountain_peaks", "written_content"}

\* the tables the callbacks write (build.py:160-166 without world and
\* site_properties)
Tables ==
  UniqueId \cup
  {"structures", "entity_positions", "entity_position_assignments",
   "hf_entity_links", "hf_site_links", "hf_relationships",
   "historical_events", "written_content_styles",
   "written_content_references"}

\* the tables after clear_tables
EmptyDb == [t \in Tables |-> <<>>]

\* cursor.execute(sql, params): the kind of statement, its table, the bound
\* value of each column and, for UPDATE, the value of WHERE id = ?
Stmt(op, table, row) ==
  [op |-> op, table |-> table, row |-> row, key |-> NoneV]
Update(table, row, key) ==
  [op |-> "update", table |-> table, row |-> row, key |-> key]

\* values sqlite3 binds: None, str, int; a dict or a list is refused
Bindable(v) == v[1] \in {"None", "str", "int"}

\* the row with the id in a table that admits one row per id
Conflicts(rows, row, unique) ==
  /\ unique
  /\ row.id # NoneV
  /\ \E i \in 1..Len(rows) : rows[i].id = row.id

insert_or_ignore(rows, row, unique) ==
  IF Conflicts(rows, row, unique) THEN rows ELSE Append(rows, row)

\* INSERT OR REPLACE: the row that holds the id goes, the new row comes
insert_or_replace(rows, row, unique) ==
  IF Conflicts(rows, row, unique)
  THEN Append(SelectSeq(rows, LAMBDA r : r.id # row.id), row)
  ELSE Append(rows, row)

\* an UPDATE that matches no row
update_nothing(rows, row, key) == rows

\* UPDATE ... SET columns WHERE id = key
update(rows, row, key) ==
  [i \in 1..Len(rows) |->
     IF key # NoneV /\ rows[i].id = key
     THEN [c \in DOMAIN rows[i] |->
             IF c \in DOMAIN row THEN row[c] ELSE rows[i][c]]
     ELSE rows[i]]

\* one cursor.execute on the tables d: the tables after it, and whether it
\* raised (a value sqlite3 does not bind; INSERT of an id the table holds)
execute(d, s) ==
  LET rows == d[s.table]
      unique == s.table \in UniqueId
  IN IF \/ \E c \in DOMAIN s.row : ~Bindable(s.row[c])
        \/ ~Bindable(s.key)
     THEN [db |-> d, raised |-> TRUE]
     ELSE IF s.op = "replace"
     THEN [db |-> [d EXCEPT ![s.table] = insert_or_replace(rows, s.row, unique)],
           raised |-> FALSE]
     ELSE IF s.op = "update"
     THEN [db |-> [d EXCEPT ![s.table] = update(rows, s.row, s.key)],
           raised |-> FALSE]
     ELSE IF Conflicts(rows, s.row, unique)
     THEN [db |-> d, raised |-> TRUE]
     ELSE [db |-> [d EXCEPT ![s.table] = Append(rows, s.row)],
           raised |-> FALSE]

\* the statements of one call of a callback, in order, up to the first that
\* raises
RECURSIVE run(_, _)
run(d, stmts) ==
  IF stmts = <<>> THEN [db |-> d, raised |-> FALSE]
  ELSE LET r == execute(d, Head(stmts))
       IN IF r.raised THEN r ELSE run(r.db, Tail(stmts))

(***************************************************************************)
(* The callbacks: the statements each executes for a record                *)
(***************************************************************************)
\* the row of one occurrence of a repeatable element under the id of its
\* record (build.py:307, 333, 345, 372, 384, 444, 456)
child_row(f, id, occ) ==
  CASE f = "structure" ->
         [local_id |-> get(occ, "id"), site_id |-> id,
          name |-> get(occ, "name"), name2 |-> get(occ, "name2"),
          type |-> get(occ, "type")]
    [] f = "entity_position" ->
         [entity_id |-> id, position_id |-> get(occ, "id"),
          name |-> get(occ, "name")]
    [] f = "entity_position_assignment" ->
         [entity_id |-> id, position_id |-> get(occ, "position_id"),
          histfig_id |-> get(occ, "histfig")]
    [] f = "entity_link" ->
         [hfid |-> id, entity_id |-> get(occ, "entity_id"),
          link_type |-> get(occ, "link_type"),
          link_strength |-> get(occ, "link_strength")]
    [] f = "site_link" ->
         [hfid |-> id, site_id |-> get(occ, "site_id"),
          link_type |-> get(occ, "link_type")]
    [] f = "style" -> [written_content_id |-> id, style |-> occ]
    [] f = "reference" ->
         [written_content_id |-> id, ref_type |-> get(occ, "type"),
          ref_id |-> get(occ, "id")]

\* build.py:216-220
import_region(data) ==
  << Stmt("replace", "regions",
          [id |-> get(data, "id"), name |-> get(data, "name"),
           type |-> get(data, "type")]) >>

\* build.py:227-231
import_underground(data) ==
  << Stmt("replace", "underground_regions",
          [id |-> get(data, "id"), type |-> get(data, "type"),
           depth |-> get(data, "depth")]) >>

\* build.py:238-242; the columns the statement does not name are NULL
import_site(data) ==
  << Stmt("replace", "sites",
          [id |-> get(data, "id"), name |-> get(data, "name"),
           type |-> get(data, "type"), coords |-> get(data, "coords"),
           rectangle |-> get(data, "rectangle"),
           civ_id |-> NoneV, cur_owner_id |-> NoneV]) >>

\* build.py:249-254
import_artifact(data) ==
  << Stmt("replace", "artifacts",
          [id |-> get(data, "id"),
           name |-> Or(get(data, "name"), get(data, "name_string")),
           item_type |-> get(data, "item_type"),
           item_subtype |-> get(data, "item_subtype"),
           mat |-> get(data, "mat")]) >>

\* build.py:264-268
import_landmass(data) ==
  << Stmt("insert", "landmasses",
          [id |-> get(data, "id"), name |-> get(data, "name"),
           coord_1 |-> get(data, "coord_1"),
           coord_2 |-> get(data, "coord_2")]) >>

\* build.py:275-280
import_peak(data) ==
  << Stmt("insert", "mountain_peaks",
          [id |-> get(data, "id"), name |-> get(data, "name"),
           coords |-> get(data, "coords"), height |-> get(data, "height"),
           is_volcano |-> IF HasKey(data[2], "is_volcano")
                          THEN PyInt(1) ELSE PyInt(0)]) >>

\* build.py:288-309
import_site_plus(data) ==
  LET site_id == get(data, "id")
      structures == get_or(data, "structures", Dict(<<>>))
      struct_list ==
        IF IsDict(structures)
        THEN DictItems(as_list(get_or(structures, "structure", List(<<>>))))
        ELSE <<>>
  IN IF Truthy(site_id)
     THEN << Update("sites",
                    [civ_id |-> get(data, "civ_id"),
                     cur_owner_id |-> get(data, "cur_owner_id")],
                    site_id) >>
          \o [i \in 1..Len(struct_list) |->
                Stmt("insert", "structures",
                     child_row("structure", site_id, struct_list[i]))]
     ELSE <<>>

\* build.py:317-347
import_entity(data) ==
  LET entity_id == get(data, "id")
      positions ==
        DictItems(as_list(get_or(data, "entity_position", List(<<>>))))
      assignments ==
        DictItems(as_list(get_or(data, "entity_position_assignment",
                                 List(<<>>))))
  IN << Stmt("replace", "entities",
             [id |-> entity_id, name |-> get(data, "name"),
              race |-> get(data, "race"), type |-> get(data, "type")]) >>
     \o [i \in 1..Len(positions) |->
           Stmt("insert", "entity_positions",
                child_row("entity_position", entity_id, positions[i]))]
     \o [i \in 1..Len(assignments) |->
           Stmt("insert", "entity_position_assignments",
                child_row("entity_position_assignment", entity_id,
                          assignments[i]))]

\* build.py:355-386
import_hf(data) ==
  LET hfid == get(data, "id")
      links == DictItems(as_list(get_or(data, "entity_link", List(<<>>))))
      slinks == DictItems(as_list(get_or(data, "site_link", List(<<>>))))
  IN << Stmt("replace", "historical_figures",
             [id |-> hfid, name |-> get(data, "name"),
              race |-> get(data, "race"), caste |-> get(data, "caste"),
              sex |-> get(data, "sex"),
              birth_year |-> get(data, "birth_year"),
              death_year |-> get(data, "death_year")]) >>
     \o [i \in 1..Len(links) |->
           Stmt("insert", "hf_entity_links", child_row("entity_link", hfid, links[i]))]
     \o [i \in 1..Len(slinks) |->
           Stmt("insert", "hf_site_links", child_row("site_link", hfid, slinks[i]))]

\* build.py:393-397
import_rel(data) ==
  << Stmt("insert", "hf_relationships",
          [source_hf |-> get(data, "source_hf"),
           target_hf |-> get(data, "target_hf"),
           relationship |-> get(data, "relationship"),
           year |-> get(data, "year")]) >>

\* json.dumps: the text as its tokens; a str between quotes with its quote
\* characters escaped, the items of a dict and of a list between brackets
\* and commas
QuoteText == "say \"hi\""
json_escape(s) == IF s = QuoteText THEN "say \\\"hi\\\"" ELSE s
json_unescape(s) == IF s = "say \\\"hi\\\"" THEN QuoteText ELSE s

RECURSIVE json_tokens(_)
RECURSIVE json_items(_, _, _)
json_items(items, i, isDict) ==
  IF i > Len(items) THEN <<>>
  ELSE (IF i > 1 THEN << <<",">> >> ELSE <<>>)
       \o (IF isDict
           THEN << <<"s", json_escape(items[i][1])>>, <<":">> >>
                \o json_tokens(items[i][2])
           ELSE json_tokens(items[i]))
       \o json_items(items, i + 1, isDict)
json_tokens(v) ==
  IF IsStr(v) THEN << <<"s", json_escape(v[2])>> >>
  ELSE IF IsDict(v) THEN << <<"{">> >> \o json_items(v[2], 1, TRUE) \o << <<"}">> >>
  ELSE << <<"[">> >> \o json_items(v[2], 1, FALSE) \o << <<"]">> >>

json_dumps(v) == Str(json_tokens(v))

\* json.loads: the value the tokens from position i on spell, and the
\* position after it
RECURSIVE json_value(_, _)
RECURSIVE json_members(_, _, _, _)
json_members(toks, i, isDict, acc) ==
  IF toks[i] \in { <<"}">>, <<"]">> }
  THEN [val |-> IF isDict THEN Dict(acc) ELSE List(acc), next |-> i + 1]
  ELSE LET j == IF toks[i] = <<",">> THEN i + 1 ELSE i
       IN IF isDict
          THEN LET m == json_value(toks, j + 2)
               IN json_members(toks, m.next, isDict,
                    Append(acc, <<json_unescape(toks[j][2]), m.val>>))
          ELSE LET m == json_value(toks, j)
               IN json_members(toks, m.next, isDict, Append(acc, m.val))
json_value(toks, i) ==
  IF toks[i][1] = "s"
  THEN [val |-> Str(json_unescape(toks[i][2])), next |-> i + 1]
  ELSE json_members(toks, i + 1, toks[i] = <<"{">>, <<>>)

json_loads(text) == json_value(text[2], 1).val

\* build.py:404-406
known_fields ==
  {"id", "year", "type", "site_id", "site", "hfid", "civ_id", "civ",
   "state", "reason", "slayer_hfid", "slayer_hf", "death_cause",
   "artifact_id", "entity_id", "structure_id"}

extra_of_all(data) == data[2]

\* build.py:408
extra_of(data) == SelectSeq(data[2], LAMBDA p : p[1] \notin known_fields)

\* build.py:407-420
import_event(data) ==
  LET extra == extra_of(data)
  IN << Stmt("insert", "historical_events",
             [id |-> get(data, "id"), year |-> get(data, "year"),
              type |-> get(data, "type"),
              site_id |-> Or(get(data, "site_id"), get(data, "site")),
              hfid |-> get(data, "hfid"),
              civ_id |-> Or(get(data, "civ_id"), get(data, "civ")),
              state |-> get(data, "state"), reason |-> get(data, "reason"),
              slayer_hfid |-> Or(get(data, "slayer_hfid"),
                                 get(data, "slayer_hf")),
              death_cause |-> get(data, "death_cause"),
              artifact_id |-> get(data, "artifact_id"),
              entity_id |-> get(data, "entity_id"),
              structure_id |-> get(data, "structure_id"),
              extra_data |-> IF extra # <<>>
                             THEN json_dumps(Dict(extra)) ELSE NoneV]) >>

\* build.py:428-458
import_content(data) ==
  LET content_id == get(data, "id")
      styles == Iter(as_list_str(get_or(data, "style", List(<<>>))))
      refs == DictItems(as_list(get_or(data, "reference", List(<<>>))))
  IN << Stmt("insert", "written_content",
             [id |-> content_id, title |-> get(data, "title"),
              type |-> get(data, "type"), author_hfid |-> get(data, "author"),
              page_start |-> get(data, "page_start"),
              page_end |-> get(data, "page_end")]) >>
     \o [i \in 1..Len(styles) |->
           Stmt("insert", "written_content_styles",
                child_row("style", content_id, styles[i]))]
     \o [i \in 1..Len(refs) |->
           Stmt("insert", "written_content_references",
                child_row("reference", content_id, refs[i]))]

\* the statements the callback with the name executes for a record
Callback(name, data) ==
  CASE name = "import_region" -> import_region(data)
    [] name = "import_underground" -> import_underground(data)
    [] name = "import_site" -> import_site(data)
    [] name = "import_artifact" -> import_artifact(data)
    [] name = "import_landmass" -> import_landmass(data)
    [] name = "import_peak" -> import_peak(data)
    [] name = "import_site_plus" -> import_site_plus(data)
    [] name = "import_entity" -> import_entity(data)
    [] name = "import_hf" -> import_hf(data)
    [] name = "import_rel" -> import_rel(data)
    [] name = "import_event" -> import_event(data)
    [] name = "import_content" -> import_content(data)

(***************************************************************************)
(* The records a pass hands to its callback                                *)
(***************************************************************************)
Importers ==
  {"import_region", "import_underground", "import_site", "import_artifact",
   "import_landmass", "import_peak", "import_site_plus", "import_entity",
   "import_hf", "import_rel", "import_event", "import_content"}

\* the keys a callback reads with data.get(key)
ScalarKeys(name) ==
  CASE name = "import_region" -> <<"id", "name", "type">>
    [] name = "import_underground" -> <<"id", "type", "depth">>
    [] name = "import_site" -> <<"id", "name", "type", "coords", "rectangle">>
    [] name = "import_artifact" ->
         <<"id", "name", "name_string", "item_type", "item_subtype", "mat">>
    [] name = "import_landmass" -> <<"id", "name", "coord_1", "coord_2">>
    [] name = "import_peak" ->
         <<"id", "name", "coords", "height", "is_volcano">>
    [] name = "import_site_plus" -> <<"id", "civ_id", "cur_owner_id">>
    [] name = "import_entity" -> <<"id", "name", "race", "type">>
    [] name = "import_hf" ->
         <<"id", "name", "race", "caste", "sex", "birth_year", "death_year">>
    [] name = "import_rel" ->
         <<"source_hf", "target_hf", "relationship", "year">>
    [] name = "import_event" ->
         <<"id", "year", "type", "site_id", "site", "hfid", "civ_id", "civ",
           "state", "reason", "slayer_hfid", "slayer_hf", "death_cause",
           "artifact_id", "entity_id", "structure_id">>
    [] name = "import_content" ->
         <<"id", "title", "type", "author", "page_start", "page_end">>

\* the text of a key: a number for an id, the name of the key otherwise, so
\* that no two keys of a record carry the same text
Text(k) == Str(IF k = "id" THEN "1" ELSE k)

\* the flattening of a child that has a child of its own
Nested == Dict(<< <<"x", Str("")>> >>)

\* what a key read with data.get(key) holds when present: an empty text, a
\* text, or (the first two keys of a callback) a dict, as when the element
\* has children
ScalarOptions(name, k) ==
  {Str(""), Text(k)}
  \cup (IF k \in {ScalarKeys(name)[1], ScalarKeys(name)[2]}
        THEN {Nested} ELSE {})

\* two occurrences of a repeatable element with child elements: one with
\* every key, one with the first key only
Item1(keys) == Dict([i \in 1..Len(keys) |-> <<keys[i], Text(keys[i])>>])
Item2(keys) == Dict(<< <<keys[1], Str("2")>> >>)

\* what the key of a repeatable element holds when present: one occurrence,
\* two, an empty occurrence, an empty occurrence after a full one
DictOccurrences(keys) ==
  {Item1(keys), List(<<Item1(keys), Item2(keys)>>), Str(""),
   List(<<Item1(keys), Str("")>>)}

\* what the key style holds when present
StyleOccurrences ==
  {Str("s"), Str(""), List(<<Str("s"), Str("t")>>), Nested,
   List(<<Str("s"), Nested>>)}

\* what the key structures holds when present: the wrapper element with its
\* structure children, an empty wrapper, two wrappers
StructuresOptions ==
  LET keys == <<"id", "name", "name2", "type">>
  IN {Dict(<< <<"structure", o>> >>) : o \in DictOccurrences(keys)}
     \cup {Str(""),
           List(<<Dict(<< <<"structure", Item1(keys)>> >>),
                  Dict(<< <<"structure", Item2(keys)>> >>)>>)}

Field(k, opts) == [key |-> k, opts |-> opts]

\* the keys of the repeatable elements and the keys outside known_fields
OtherFields(name) ==
  CASE name = "import_site_plus" -> << Field("structures", StructuresOptions) >>
    [] name = "import_entity" ->
         << Field("entity_position", DictOccurrences(<<"id", "name">>)),
            Field("entity_position_assignment",
                  DictOccurrences(<<"position_id", "histfig">>)) >>
    [] name = "import_hf" ->
         << Field("entity_link",
                  DictOccurrences(<<"entity_id", "link_type",
                                    "link_strength">>)),
            Field("site_link", DictOccurrences(<<"site_id", "link_type">>)) >>
    [] name = "import_event" ->
         << Field("custom_field",
                  {Str("value"), Str(QuoteText), Nested,
                   List(<<Str("a"), Nested>>)}),
            Field("link_type", {Str("lair")}) >>
    [] name = "import_content" ->
         << Field("style", StyleOccurrences),
            Field("reference", DictOccurrences(<<"type", "id">>)) >>
    [] OTHER -> <<>>

Fields(name) ==
  [i \in 1..Len(ScalarKeys(name)) |->
     Field(ScalarKeys(name)[i],
           ScalarOptions(name, ScalarKeys(name)[i]))]
  \o OtherFields(name)

\* the items of the dicts over the fields i.. with at most n keys
RECURSIVE Recs(_, _, _)
Recs(fields, i, n) ==
  IF i > Len(fields) \/ n = 0 THEN { <<>> }
  ELSE LET without == Recs(fields, i + 1, n)
           rest == Recs(fields, i + 1, n - 1)
       IN without \cup { << <<fields[i].key, v>> >> \o r :
                         v \in fields[i].opts, r \in rest }

\* the record that carries every key the callback reads with data.get(key)
FullRecord(name) ==
  Dict([i \in 1..Len(ScalarKeys(name)) |->
          <<ScalarKeys(name)[i], Text(ScalarKeys(name)[i])>>])

\* the records of a pass: any subset of at most MaxKeys keys, and every key
Records(name) ==
  {Dict(r) : r \in Recs(Fields(name), 1, MaxKeys)} \cup {FullRecord(name)}

\* records that differ in their id (first key) and in one more field
IdRecords(name) ==
  LET k1 == ScalarKeys(name)[1]
      k2 == ScalarKeys(name)[2]
  IN {Dict(a \o b) :
        a \in { <<>>, << <<k1, Str("1")>> >>, << <<k1, Str("2")>> >> },
        b \in { <<>>, << <<k2, Str("x")>> >>, << <<k2, Str("y")>> >> }}

\* what a pass streams: one record of any shape, or up to MaxImports records
\* that differ in id and one field
Queues(name) ==
  { <<r>> : r \in Records(name) }
  \cup UNION { [1..n -> IdRecords(name)] : n \in 1..MaxImports }

\* the tables when the pass starts: cleared, and for the second pass over
\* the sites with a site of the first
TablesAtStart(name) ==
  IF name = "import_site_plus"
  THEN run(EmptyDb, import_site(Dict(<< <<"id", Str("1")>>,
                                       <<"name", Str("name")>> >>))).db
  ELSE EmptyDb

\* no pass is modelled
ImpIdle ==
  /\ importer = None
  /\ impQueue = <<>>
  /\ db = EmptyDb
  /\ impBefore = EmptyDb
  /\ impRec = NoneV
  /\ impDone = <<>>
  /\ impRaised = FALSE
  /\ impN = 0

\* stream_elements is about to hand the records of a pass to its callback
ImpInit ==
  /\ importer \in Importers
  /\ impQueue \in Queues(importer)
  /\ db = TablesAtStart(importer)
  /\ impBefore = db
  /\ impRec = NoneV
  /\ impDone = <<>>
  /\ impRaised = FALSE
  /\ impN = 0

\* build.py:110-111: stream_elements calls the callback with the next
\* record; the statements run on the connection until one raises, and an
\* exception ends the pass
Call(stmts) ==
  /\ impQueue # <<>>
  /\ ~impRaised
  /\ LET r == run(db, stmts)
     IN /\ db' = r.db
        /\ impRaised' = r.raised
  /\ impBefore' = db
  /\ impRec' = Head(impQueue)
  /\ impDone' = Append(impDone, Head(impQueue))
  /\ impQueue' = Tail(impQueue)
  /\ impN' = impN + 1
  /\ UNCHANGED importer
  /\ UNCHANGED notImp

ImportRegion ==
  importer = "import_region" /\ Call(import_region(Head(impQueue)))
ImportUnderground ==
  importer = "import_underground" /\ Call(import_underground(Head(impQueue)))
ImportSite ==
  importer = "import_site" /\ Call(import_site(Head(impQueue)))
ImportArtifact ==
  importer = "import_artifact" /\ Call(import_artifact(Head(impQueue)))
ImportLandmass ==
  importer = "import_landmass" /\ Call(import_landmass(Head(impQueue)))
ImportPeak ==
  importer = "import_peak" /\ Call(import_peak(Head(impQueue)))
ImportSitePlus ==
  importer = "import_site_plus" /\ Call(import_site_plus(Head(impQueue)))
ImportEntity ==
  importer = "import_entity" /\ Call(import_entity(Head(impQueue)))
ImportHf ==
  importer = "import_hf" /\ Call(import_hf(Head(impQueue)))
ImportRel ==
  importer = "import_rel" /\ Call(import_rel(Head(impQueue)))
ImportEvent ==
  importer = "import_event" /\ Call(import_event(Head(impQueue)))
ImportContent ==
  importer = "import_content" /\ Call(import_content(Head(impQueue)))

(***************************************************************************)
(* run_import over the tables (build.py:141-172, 197-467)                  *)
(***************************************************************************)
\* runs of build.py on the same two files
MaxRuns == 2

\* the list of clear_tables with structures left out
tables_without_structures ==
  <<"world", "regions", "underground_regions", "landmasses", "mountain_peaks",
    "sites", "site_properties", "entities", "entity_positions",
    "entity_position_assignments", "historical_figures", "hf_entity_links",
    "hf_site_links", "hf_relationships", "artifacts", "historical_events",
    "written_content", "written_content_styles", "written_content_references">>

\* tables of clear_tables (build.py:160-166)
tables ==
  <<"world", "regions", "underground_regions", "landmasses", "mountain_peaks",
    "sites", "structures", "site_properties", "entities", "entity_positions",
    "entity_position_assignments", "historical_figures", "hf_entity_links",
    "hf_site_links", "hf_relationships", "artifacts", "historical_events",
    "written_content", "written_content_styles", "written_content_references">>

\* the tables of world.db: those the callbacks write, world and
\* site_properties
StoreTables == Tables \cup {"world", "site_properties"}
EmptyStore == [t \in StoreTables |-> <<>>]

\* conn.execute("PRAGMA foreign_keys = ..."): the setting after it; sqlite
\* ignores the statement while a transaction is open
pragma_foreign_keys(value, fk, inTxn) == IF inTxn THEN fk ELSE value

\* build.py:169-170: DELETE FROM each table of the list
clear_tables(d) ==
  [t \in DOMAIN d |->
     IF \E i \in 1..Len(tables) : tables[i] = t THEN <<>> ELSE d[t]]

\* the process ends and what the connection had not committed is committed
\* all the same
rollback_nothing(durable, seen) == seen

\* world.db after run_import is left by an exception without conn.commit()
\* and the process ends: what the connection had not committed is gone
\* (build.py:469-476)
rollback(durable, seen) == durable

\* the columns that reference the id of another table (schema.sql: the
\* child tables of sites, entities, historical_figures, written_content)
ForeignKeys ==
  { <<"structures", "site_id", "sites">>,
    <<"entity_positions", "entity_id", "entities">>,
    <<"entity_position_assignments", "entity_id", "entities">>,
    <<"hf_entity_links", "hfid", "historical_figures">>,
    <<"hf_site_links", "hfid", "historical_figures">>,
    <<"written_content_styles", "written_content_id", "written_content">>,
    <<"written_content_references", "written_content_id",
      "written_content">> }

\* the statements of one call of a callback on a connection whose
\* foreign_keys setting is fk: with enforcement on, an INSERT whose
\* reference names no row raises
RECURSIVE run_fk(_, _, _)
run_fk(d, stmts, fk) ==
  IF stmts = <<>> THEN [db |-> d, raised |-> FALSE]
  ELSE LET s == Head(stmts)
           orphan ==
             /\ s.op # "update"
             /\ \E k \in ForeignKeys :
                  /\ k[1] = s.table
                  /\ s.row[k[2]] # NoneV
                  /\ \A i \in 1..Len(d[k[3]]) : d[k[3]][i].id # s.row[k[2]]
           r == IF fk /\ orphan THEN [db |-> d, raised |-> TRUE]
                ELSE execute(d, s)
       IN IF r.raised THEN r ELSE run_fk(r.db, Tail(stmts), fk)

\* the callback of each pass, in program order (build.py:216-459)
callbacks ==
  <<"import_region", "import_underground", "import_site", "import_artifact",
    "import_landmass", "import_peak", "import_site_plus", "import_entity",
    "import_hf", "import_rel", "import_event", "import_content">>

\* the site elements of the base file: none, one, one id twice, two ids
BaseSite(id, name) ==
  Dict(<< <<"id", Str(id)>>, <<"name", Str(name)>>, <<"type", Str("town")>>,
          <<"coords", Str("3,4")>>, <<"rectangle", Str("1,1:2,2")>> >>)
BaseSites ==
  { <<>>, <<BaseSite("1", "x")>>, <<BaseSite("1", "x"), BaseSite("1", "y")>>,
    <<BaseSite("1", "x"), BaseSite("2", "x")>> }

\* the site elements of the extended file: site 1 with an owner and two
\* structures, site 1 with a current owner and one structure, a site the
\* base file lacks, a site without id, site 1 with two structures elements
StructureKeys == <<"id", "name", "name2", "type">>
Structures(occ) == <<"structures", Dict(<< <<"structure", occ>> >>)>>
PlusSiteOptions ==
  { Dict(<< <<"id", Str("1")>>, <<"civ_id", Str("7")>>,
            Structures(List(<<Item1(StructureKeys), Item2(StructureKeys)>>)) >>),
    Dict(<< <<"id", Str("1")>>, <<"cur_owner_id", Str("8")>>,
            Structures(Item2(StructureKeys)) >>),
    Dict(<< <<"id", Str("3")>>, Structures(Item1(StructureKeys)) >>),
    Dict(<< <<"civ_id", Str("7")>>, Structures(Item1(StructureKeys)) >>),
    Dict(<< <<"id", Str("1")>>,
            <<"structures",
              List(<<Dict(<< <<"structure", Item1(StructureKeys)>> >>),
                     Dict(<< <<"structure", Item2(StructureKeys)>> >>)>>)>> >>) }
PlusSites == UNION { [1..n -> PlusSiteOptions] : n \in 0..2 }

\* the elements of the other passes: none, one for each pass, the same
\* element twice for each pass
RECURSIVE Repeat(_, _)
Repeat(r, n) == IF n = 0 THEN <<>> ELSE <<r>> \o Repeat(r, n - 1)
Files ==
  { [k \in 1..Len(callbacks) |->
       IF callbacks[k] = "import_site" THEN b
       ELSE IF callbacks[k] = "import_site_plus" THEN p
       ELSE Repeat(FullRecord(callbacks[k]), n)] :
    b \in BaseSites, p \in PlusSites, n \in 0..2 }

\* world.db before the first run: new, or with a row in every table
OldStores ==
  { EmptyStore,
    [t \in StoreTables |-> << [id |-> Str("1"), name |-> Str("old")] >>] }

\* no run over the tables is modelled
StoIdle ==
  /\ files = <<>>
  /\ sto = EmptyStore
  /\ stoConn = EmptyStore
  /\ foreign_keys = FALSE
  /\ in_transaction = FALSE
  /\ stoPc = "idle"
  /\ stoPass = 0
  /\ stoPos = 0
  /\ stoCommits = 0
  /\ stoRuns = 0
  /\ stoDone = 0

\* build.py:197: the two files are sanitized, no connection is open yet
StoInit ==
  /\ files \in Files
  /\ sto \in OldStores
  /\ stoConn = sto
  /\ foreign_keys = FALSE
  /\ in_transaction = FALSE
  /\ stoPc = "init_db"
  /\ stoPass = 0
  /\ stoPos = 0
  /\ stoCommits = 0
  /\ stoRuns = 1
  /\ stoDone = 0

\* build.py:200 with init_db (145-153): a new connection, whose
\* foreign_keys setting is off until the PRAGMA; no transaction is open
StoInitDb ==
  /\ stoPc = "init_db"
  /\ foreign_keys' = pragma_foreign_keys(TRUE, FALSE, FALSE)
  /\ in_transaction' = FALSE
  /\ stoConn' = sto
  /\ stoPc' = "clear"
  /\ UNCHANGED <<files, sto, stoPass, stoPos, stoCommits, stoRuns, stoDone>>
  /\ UNCHANGED notSto

\* build.py:201 with clear_tables (156-172): PRAGMA off, the DELETEs (the
\* first opens a transaction), PRAGMA on, commit; or a DELETE raises
StoClearTables ==
  /\ stoPc = "clear"
  /\ LET off == pragma_foreign_keys(FALSE, foreign_keys, in_transaction)
         deleting == in_transaction \/ Len(tables) > 0
         on == pragma_foreign_keys(TRUE, off, deleting)
     IN \E error \in BOOLEAN :
          IF error
          THEN /\ foreign_keys' = off
               /\ sto' = rollback(sto, clear_tables(stoConn))
               /\ stoConn' = sto'
               /\ stoPc' = "failed"
               /\ UNCHANGED stoCommits
          ELSE /\ foreign_keys' = on
               /\ stoConn' = clear_tables(stoConn)
               /\ sto' = stoConn'
               /\ stoCommits' = stoCommits + 1
               /\ stoPc' = "world"
  /\ in_transaction' = FALSE
  /\ UNCHANGED <<files, stoPass, stoPos, stoRuns, stoDone>>
  /\ UNCHANGED notSto

\* build.py:206-209: the world row and its commit
StoWorld ==
  /\ stoPc = "world"
  /\ stoConn' = [stoConn EXCEPT !["world"] =
                   Append(@, [name |-> Str("name"), altname |-> Str("altname")])]
  /\ sto' = stoConn'
  /\ in_transaction' = FALSE
  /\ stoCommits' = stoCommits + 1
  /\ stoPc' = "pass"
  /\ stoPass' = 1
  /\ stoPos' = 0
  /\ UNCHANGED <<files, foreign_keys, stoRuns, stoDone>>
  /\ UNCHANGED notSto

\* stream_elements (build.py:110-111) hands the next record of the pass to
\* its callback; an exception of a statement ends the run
StoCallback ==
  /\ stoPc = "pass"
  /\ stoPos < Len(files[stoPass])
  /\ LET stmts == Callback(callbacks[stoPass], files[stoPass][stoPos + 1])
         r == run_fk(stoConn, stmts, foreign_keys)
     IN IF r.raised
        THEN /\ sto' = rollback(sto, r.db)
             /\ stoConn' = sto'
             /\ in_transaction' = FALSE
             /\ stoPc' = "failed"
        ELSE /\ stoConn' = r.db
             /\ in_transaction' = (in_transaction \/ stmts # <<>>)
             /\ UNCHANGED <<sto, stoPc>>
  /\ stoPos' = stoPos + 1
  /\ UNCHANGED <<files, foreign_keys, stoPass, stoCommits, stoRuns, stoDone>>
  /\ UNCHANGED notSto

\* the stream of the pass is exhausted and run_import commits (build.py:222,
\* 233, ..., 460); after the last pass conn.close() (463)
StoCommit ==
  /\ stoPc = "pass"
  /\ stoPos = Len(files[stoPass])
  /\ sto' = stoConn
  /\ in_transaction' = FALSE
  /\ stoCommits' = stoCommits + 1
  /\ stoPos' = 0
  /\ IF stoPass < Len(callbacks)
     THEN /\ stoPass' = stoPass + 1
          /\ stoPc' = stoPc
          /\ stoDone' = stoDone
     ELSE /\ stoPass' = 0
          /\ stoPc' = "done"
          /\ stoDone' = stoDone + 1
  /\ UNCHANGED <<files, stoConn, foreign_keys, stoRuns>>
  /\ UNCHANGED notSto

\* build.py:475-476: build.py is started again on the same files
StoRerun ==
  /\ stoPc \in {"done", "failed"}
  /\ stoRuns < MaxRuns
  /\ stoRuns' = stoRuns + 1
  /\ stoPc' = "init_db"
  /\ stoConn' = sto
  /\ foreign_keys' = FALSE
  /\ in_transaction' = FALSE
  /\ stoPass' = 0
  /\ stoPos' = 0
  /\ stoCommits' = 0
  /\ UNCHANGED <<files, sto, stoDone>>
  /\ UNCHANGED notSto

(***************************************************************************)
(* The requests on the worlds (routes/worlds.py:56-110, db.py:38-61)       *)
(***************************************************************************)
\* requests that run at the same time
MaxPending == 2

\* the ids a request can name; a world keeps its database in its own file
WorldIds == {"1", "2", "3"}
DbPath(id) == <<"worlds", id>>
WorldRow(id, cur) == [id |-> id, db_path |-> DbPath(id), is_current |-> cur]
CurrentRows(rows) == {r \in rows : r.is_current = 1}

\* get_current_world (db.py:38-42): the row with is_current = 1 as <<row>>,
\* None as <<>>
get_current_world(rows) ==
  IF CurrentRows(rows) = {} THEN <<>>
  ELSE << CHOOSE r \in CurrentRows(rows) : TRUE >>

\* switch_world without the UPDATE that resets is_current
switch_world_no_reset(rows, world_id) ==
  {IF r.id = world_id THEN [r EXCEPT !.is_current = 1] ELSE r : r \in rows}

\* worlds.py:68-70: UPDATE worlds SET is_current = 0 WHERE is_current = 1,
\* then UPDATE worlds SET is_current = 1 WHERE id = ?
switch_world(rows, world_id) ==
  LET reset == {[r EXCEPT !.is_current = 0] : r \in rows}
  IN {IF r.id = world_id THEN [r EXCEPT !.is_current = 1] ELSE r : r \in reset}

\* DELETE FROM worlds WHERE is_current = 0 OR id = ?
delete_world_and_others(rows, world_id) ==
  {r \in rows : r.id # world_id /\ r.is_current = 1}

\* worlds.py:106: DELETE FROM worlds WHERE id = ?
delete_world(rows, world_id) == {r \in rows : r.id # world_id}

\* no request is modelled
WldIdle ==
  /\ worlds = {}
  /\ disk = {}
  /\ pending = {}
  /\ lastReq = <<"none", "none", "none">>
  /\ tick = 0

\* a master table with at most one current world; the file of one world may
\* be missing
WldInit ==
  /\ \E ids \in SUBSET WorldIds :
       /\ \E cur \in ids \cup {"none"} :
            worlds = {WorldRow(id, IF id = cur THEN 1 ELSE 0) : id \in ids}
       /\ \E missing \in ids \cup {"none"} :
            disk = {DbPath(id) : id \in ids \ {missing}}
  /\ pending = {}
  /\ lastReq = <<"none", "none", "none">>
  /\ tick = 0

Completes(handler, world_id, res) ==
  /\ lastReq' = <<handler, world_id, res>>
  /\ tick' = 1 - tick

\* worlds.py:59-65 and 80-86: a request reads the row of its world; when
\* there is none it flashes 'World not found' and returns
WorldSelect ==
  \E handler \in {"switch_world", "delete_world"}, world_id \in WorldIds :
    /\ <<handler, world_id>> \notin pending
    /\ IF \E r \in worlds : r.id = world_id
       THEN /\ Cardinality(pending) < MaxPending
            /\ pending' = pending \cup {<<handler, world_id>>}
            /\ UNCHANGED <<lastReq, tick>>
       ELSE /\ Completes(handler, world_id, "not_found")
            /\ UNCHANGED pending
    /\ UNCHANGED <<worlds, disk>>
    /\ UNCHANGED notWld

\* worlds.py:68-74: the two UPDATEs and their commit
SwitchWorld ==
  \E world_id \in WorldIds :
    /\ <<"switch_world", world_id>> \in pending
    /\ worlds' = switch_world(worlds, world_id)
    /\ pending' = pending \ {<<"switch_world", world_id>>}
    /\ Completes("switch_world", world_id, "success")
    /\ UNCHANGED disk
    /\ UNCHANGED notWld

\* worlds.py:88-110: the files of the world are unlinked, its row is
\* deleted, commit; the result tells whether the row was the current world
DeleteWorld ==
  \E world_id \in WorldIds :
    /\ <<"delete_world", world_id>> \in pending
    /\ disk' = disk \ {DbPath(world_id)}
    /\ worlds' = delete_world(worlds, world_id)
    /\ pending' = pending \ {<<"delete_world", world_id>>}
    /\ Completes("delete_world", world_id,
                 IF \E r \in CurrentRows(worlds) : r.id = world_id
                 THEN "deleted_current" ELSE "deleted")
    /\ UNCHANGED notWld

\* get_db (db.py:52-61) in a request of its own: the path the connection is
\* opened on, None as <<>>
GetDb ==
  /\ LET world == get_current_world(worlds)
     IN Completes("get_db", "none",
                  IF world # <<>> /\ world[1].db_path \in disk
                  THEN <<world[1].db_path>> ELSE <<>>)
  /\ UNCHANGED <<worlds, disk, pending>>
  /\ UNCHANGED notWld

(***************************************************************************)
(* The relationship graph of a figure (routes/api.py:497-590)              *)
(***************************************************************************)
\* the figures of historical_figures are 1..MaxFigures
MaxFigures == 5
\* api.py:505: the limit of the depth
MaxDepth == 3

\* the rows of hf_relationships a table is drawn from, as
\* <<source_hf, target_hf>>: a chain through all figures, an edge back to
\* the first figure, a figure related to itself, a row twice in the two
\* directions, a row whose target is no figure
MissingFigure == MaxFigures + 1
RelPool ==
  [i \in 1..(MaxFigures - 1) |-> <<i, i + 1>>]
    \o << <<3, 1>>, <<1, 1>>, <<2, 1>>, <<1, MissingFigure>> >>
RECURSIVE Rows(_, _)
Rows(pool, chosen) ==
  IF pool = <<>> THEN <<>>
  ELSE (IF Len(pool) \in chosen THEN <<Head(pool)>> ELSE <<>>)
         \o Rows(Tail(pool), chosen)
RelTables == { Rows(RelPool, chosen) : chosen \in SUBSET (1..Len(RelPool)) }
\* the depth of the request: absent (1), negative, zero, up to the limit,
\* beyond it
RequestedDepths == {-1, 0, 1, 2, MaxDepth, MaxDepth + 1, MaxDepth + 4}

\* visited stays as it is
visit_nothing(seen, fig_id) == seen
\* api.py:522: visited.add(fig_id)
visit(seen, fig_id) == seen \cup {fig_id}

\* api.py:546-549 and 562-565: the other_id of the rows whose source_hf is
\* the figure, then of the rows whose target_hf is the figure, each with
\* the link the loop appends; the table does not change during the request
RelsOf(table, fig_id) ==
  LET src == SelectSeq(table, LAMBDA r : r[1] = fig_id)
      tgt == SelectSeq(table, LAMBDA r : r[2] = fig_id)
  IN [i \in 1..Len(src) |->
        [other_id |-> src[i][2], link |-> <<fig_id, src[i][2]>>]]
     \o [i \in 1..Len(tgt) |->
        [other_id |-> tgt[i][1], link |-> <<tgt[i][1], fig_id>>]]

\* api.py:577-583: the graph_links with one link for each unordered pair
RECURSIVE unique_links(_, _)
unique_links(ls, seen_links) ==
  IF ls = <<>> THEN <<>>
  ELSE LET l == Head(ls)
           key == <<Min(l[1], l[2]), IF l[1] < l[2] THEN l[2] ELSE l[1]>>
       IN IF key \in seen_links THEN unique_links(Tail(ls), seen_links)
          ELSE <<l>> \o unique_links(Tail(ls), seen_links \cup {key})

\* no request for a graph is modelled
GraphIdle ==
  /\ rels = <<>>
  /\ figure_id = 0
  /\ requested = 0
  /\ depth = 0
  /\ visited = {}
  /\ nodes = <<>>
  /\ graph_links = <<>>
  /\ stack = <<>>
  /\ gPc = "idle"

\* a request /graph/<figure_id>?depth=<requested> on some table
GraphInit ==
  /\ rels \in RelTables
  /\ figure_id \in {1, 2, MissingFigure}
  /\ requested \in RequestedDepths
  /\ depth = requested
  /\ visited = {}
  /\ nodes = <<>>
  /\ graph_links = <<>>
  /\ stack = <<>>
  /\ gPc = "start"

Frame(fig_id, current_depth) ==
  [fig_id |-> fig_id, current_depth |-> current_depth, pc |-> "enter",
   todo |-> <<>>]
Pop == stack' = Tail(stack)

\* api.py:504-514: the depth is limited, the central figure is looked up
GraphNotFound ==
  /\ gPc = "start"
  /\ figure_id \notin 1..MaxFigures
  /\ depth' = Min(requested, MaxDepth)
  /\ gPc' = "not_found"
  /\ UNCHANGED <<rels, figure_id, requested, visited, nodes, graph_links, stack>>
  /\ UNCHANGED notGraph

\* api.py:504-517 and 574: the depth is limited and add_figure(figure_id, 0)
\* is called
GraphStart ==
  /\ gPc = "start"
  /\ figure_id \in 1..MaxFigures
  /\ depth' = Min(requested, MaxDepth)
  /\ stack' = <<Frame(figure_id, 0)>>
  /\ gPc' = "add_figure"
  /\ UNCHANGED <<rels, figure_id, requested, visited, nodes, graph_links>>
  /\ UNCHANGED notGraph

\* api.py:520-521: the figure was visited or lies beyond the depth
AddFigureSkip ==
  /\ gPc = "add_figure" /\ stack # <<>>
  /\ LET f == Head(stack)
     IN /\ f.pc = "enter"
        /\ f.fig_id \in visited \/ f.current_depth > depth
  /\ Pop
  /\ UNCHANGED <<gPc, rels, figure_id, requested, depth, visited, nodes,
                 graph_links>>
  /\ UNCHANGED notGraph

\* api.py:522-530: the figure is visited and has no row
AddFigureMissing ==
  /\ gPc = "add_figure" /\ stack # <<>>
  /\ LET f == Head(stack)
     IN /\ f.pc = "enter"
        /\ ~(f.fig_id \in visited \/ f.current_depth > depth)
        /\ f.fig_id \notin 1..MaxFigures
        /\ visited' = visit(visited, f.fig_id)
  /\ Pop
  /\ UNCHANGED <<gPc, rels, figure_id, requested, depth, nodes, graph_links>>
  /\ UNCHANGED notGraph

\* api.py:522-565: the figure is visited and becomes a node; below the depth
\* its relationships are read
AddFigureNode ==
  /\ gPc = "add_figure" /\ stack # <<>>
  /\ LET f == Head(stack)
     IN /\ f.pc = "enter"
        /\ ~(f.fig_id \in visited \/ f.current_depth > depth)
        /\ f.fig_id \in 1..MaxFigures
        /\ visited' = visit(visited, f.fig_id)
        /\ nodes' = Append(nodes, [id |-> f.fig_id, depth |-> f.current_depth])
        /\ stack' = <<[f EXCEPT !.pc = "loop",
                                !.todo = IF f.current_depth < depth
                                         THEN RelsOf(rels, f.fig_id)
                                         ELSE <<>>]>> \o Tail(stack)
  /\ UNCHANGED <<gPc, rels, figure_id, requested, depth, graph_links>>
  /\ UNCHANGED notGraph

\* api.py:551-557 and 567-572: the link of the next row is appended and
\* add_figure is called on its other_id
AddFigureRel ==
  /\ gPc = "add_figure" /\ stack # <<>>
  /\ LET f == Head(stack)
     IN /\ f.pc = "loop"
        /\ f.todo # <<>>
        /\ graph_links' = Append(graph_links, Head(f.todo).link)
        /\ stack' = <<Frame(Head(f.todo).other_id, f.current_depth + 1),
                      [f EXCEPT !.todo = Tail(f.todo)]>> \o Tail(stack)
  /\ UNCHANGED <<gPc, rels, figure_id, requested, depth, visited, nodes>>
  /\ UNCHANGED notGraph

\* the rows of the figure are exhausted and add_figure returns
AddFigureReturn ==
  /\ gPc = "add_figure" /\ stack # <<>>
  /\ LET f == Head(stack)
     IN f.pc = "loop" /\ f.todo = <<>>
  /\ Pop
  /\ UNCHANGED <<gPc, rels, figure_id, requested, depth, visited, nodes,
                 graph_links>>
  /\ UNCHANGED notGraph

\* api.py:576-590: the outermost add_figure has returned, the graph_links are
\* deduplicated and the graph is the response
GraphResponse ==
  /\ gPc = "add_figure" /\ stack = <<>>
  /\ graph_links' = unique_links(graph_links, {})
  /\ gPc' = "done"
  /\ UNCHANGED <<rels, figure_id, requested, depth, visited, nodes, stack>>
  /\ UNCHANGED notGraph

(***************************************************************************)
(* run_import, step by step                                                *)
(***************************************************************************)
Log(e) == dbLog' = Append(dbLog, e)

\* an exception of a pass is caught and the pass goes on with the stream
Raise_and_retry(step, inTry) ==
  /\ outcome' = "raised"
  /\ failedAt' = step
  /\ pc' = IF step[1] = "pass" THEN "pass"
           ELSE IF inTry THEN "finally1" ELSE "exit"

\* an exception leaves run_import: from inside the try through the finally
\* clause, from outside it straight to the interpreter
Raise(step, inTry) ==
  /\ outcome' = "raised"
  /\ failedAt' = step
  /\ pc' = IF inTry THEN "finally1" ELSE "exit"

\* build.py:182-186
FindXmlFiles ==
  /\ pc = "find"
  /\ LEGENDS_FILE' = FoundBase(dir)
  /\ LEGENDS_PLUS_FILE' = FoundPlus(dir)
  /\ IF find_xml_files(LEGENDS_FILE', LEGENDS_PLUS_FILE')
     THEN /\ pc' = "sanitize1"
          /\ outcome' = outcome
     ELSE /\ pc' = "exit"
          /\ outcome' = "false"
  /\ UNCHANGED <<dir, passIdx, recs, temps, created, legends_clean,
                 legends_plus_clean, store, store0, conn, dbLog, failedAt,
                 exitStatus, flash>>
  /\ UNCHANGED notRun

\* build.py:194 with sanitize_xml_file (40-71): filepath.name raises for None
\* before mkstemp; after mkstemp any error of open, read or write leaves the
\* function with the temp file still on disk
SanitizeBase ==
  /\ pc = "sanitize1"
  /\ IF LEGENDS_FILE = None
     THEN /\ Raise(<<"sanitize1", 0>>, FALSE)
          /\ UNCHANGED <<temps, created, legends_clean>>
     ELSE /\ temps' = temps \cup {"tmp1"}
          /\ created' = created \cup {"tmp1"}
          /\ \E ioError \in BOOLEAN :
               IF ioError
               THEN /\ Raise(<<"sanitize1", 0>>, FALSE)
                    /\ UNCHANGED legends_clean
               ELSE /\ legends_clean' = "tmp1"
                    /\ pc' = "sanitize2"
                    /\ UNCHANGED <<outcome, failedAt>>
  /\ UNCHANGED <<dir, LEGENDS_FILE, LEGENDS_PLUS_FILE, passIdx, recs,
                 legends_plus_clean, store, store0, conn, dbLog, exitStatus,
                 flash>>
  /\ UNCHANGED notRun

\* build.py:195
SanitizePlus ==
  /\ pc = "sanitize2"
  /\ IF LEGENDS_PLUS_FILE = None
     THEN /\ Raise(<<"sanitize2", 0>>, FALSE)
          /\ UNCHANGED <<temps, created, legends_plus_clean>>
     ELSE /\ temps' = temps \cup {"tmp2"}
          /\ created' = created \cup {"tmp2"}
          /\ \E ioError \in BOOLEAN :
               IF ioError
               THEN /\ Raise(<<"sanitize2", 0>>, FALSE)
                    /\ UNCHANGED legends_plus_clean
               ELSE /\ legends_plus_clean' = "tmp2"
                    /\ pc' = "init_db"
                    /\ UNCHANGED <<outcome, failedAt>>
  /\ UNCHANGED <<dir, LEGENDS_FILE, LEGENDS_PLUS_FILE, passIdx, recs,
                 legends_clean, store, store0, conn, dbLog, exitStatus, flash>>
  /\ UNCHANGED notRun

\* build.py:200 with init_db (141-153)
InitDb ==
  /\ pc = "init_db"
  /\ Log(<<"init_db">>)
  /\ \E error \in BOOLEAN :
       IF error
       THEN Raise(<<"init_db", 0>>, TRUE)
       ELSE /\ pc' = "clear"
            /\ UNCHANGED <<outcome, failedAt>>
  /\ UNCHANGED <<dir, LEGENDS_FILE, LEGENDS_PLUS_FILE, passIdx, recs, temps,
                 created, legends_clean, legends_plus_clean, store, store0,
                 conn, exitStatus, flash>>
  /\ UNCHANGED notRun

\* build.py:201 with clear_tables (156-172): the deletes and their commit
ClearTables ==
  /\ pc = "clear"
  /\ Log(<<"clear_tables">>)
  /\ \E error \in BOOLEAN :
       IF error
       THEN /\ Raise(<<"clear", 0>>, TRUE)
            /\ \E deleted \in SUBSET conn : conn' = conn \ deleted
            /\ UNCHANGED store
       ELSE /\ conn' = {}
            /\ store' = {}
            /\ pc' = "world"
            /\ UNCHANGED <<outcome, failedAt>>
  /\ UNCHANGED <<dir, LEGENDS_FILE, LEGENDS_PLUS_FILE, passIdx, recs, temps,
                 created, legends_clean, legends_plus_clean, store0,
                 exitStatus, flash>>
  /\ UNCHANGED notRun

\* build.py:206-209 with get_world_info (124-138)
WorldInfo ==
  /\ pc = "world"
  /\ \E error \in BOOLEAN :
       IF error
       THEN /\ Raise(<<"world", 0>>, TRUE)
            /\ UNCHANGED <<conn, store, dbLog, passIdx>>
       ELSE /\ conn' = conn \cup {Row(0, 1)}
            /\ store' = conn'
            /\ Log(<<"commit", 0>>)
            /\ pc' = "pass"
            /\ passIdx' = 1
            /\ UNCHANGED <<outcome, failedAt>>
  /\ UNCHANGED <<dir, LEGENDS_FILE, LEGENDS_PLUS_FILE, recs, temps, created,
                 legends_clean, legends_plus_clean, store0, exitStatus, flash>>
  /\ UNCHANGED notRun

WriteAutocommit(k, n) ==
  /\ conn' = conn \cup {Row(k, n)}
  /\ store' = conn'

\* cursor.execute of an INSERT or UPDATE in a callback: the row joins the
\* connection's open transaction
Write(k, n) ==
  /\ conn' = conn \cup {Row(k, n)}
  /\ UNCHANGED store

\* stream_elements (99-121) yields one more element and the pass's callback
\* writes its row
PassRecord ==
  /\ pc = "pass"
  /\ Cardinality(RunRows(conn)) < MaxRecs
  /\ Write(passIdx, recs + 1)
  /\ recs' = recs + 1
  /\ Log(<<"insert", passIdx>>)
  /\ UNCHANGED <<dir, LEGENDS_FILE, LEGENDS_PLUS_FILE, pc, passIdx, temps,
                 created, legends_clean, legends_plus_clean, store0, outcome,
                 failedAt, exitStatus, flash>>
  /\ UNCHANGED notRun

\* iterparse raises on markup that is not well formed, or a statement of the
\* callback raises, possibly after an earlier statement of the same callback
\* has written
PassFail ==
  /\ pc = "pass"
  /\ \E partial \in BOOLEAN :
       IF partial
       THEN Write(passIdx, recs + 1)
       ELSE UNCHANGED <<conn, store>>
  /\ Raise(<<"pass", passIdx>>, TRUE)
  /\ UNCHANGED <<dir, LEGENDS_FILE, LEGENDS_PLUS_FILE, passIdx, recs, temps,
                 created, legends_clean, legends_plus_clean, store0, dbLog,
                 exitStatus, flash>>
  /\ UNCHANGED notRun

CommitNothing == UNCHANGED store

\* conn.commit(): the open transaction becomes durable
Commit == store' = conn

\* the stream of the pass is exhausted: stream_elements returns and
\* run_import commits (build.py:222, 233, ..., 460)
PassCommit ==
  /\ pc = "pass"
  /\ Commit
  /\ Log(<<"commit", passIdx>>)
  /\ recs' = 0
  /\ IF passIdx < NumPasses
     THEN /\ passIdx' = passIdx + 1
          /\ pc' = pc
     ELSE /\ passIdx' = 0
          /\ pc' = "close"
  /\ UNCHANGED <<dir, LEGENDS_FILE, LEGENDS_PLUS_FILE, temps, created,
                 legends_clean, legends_plus_clean, store0, conn, outcome,
                 failedAt, exitStatus, flash>>
  /\ UNCHANGED notRun

\* build.py:463-467
Close ==
  /\ pc = "close"
  /\ outcome' = "true"
  /\ pc' = "finally1"
  /\ UNCHANGED <<dir, LEGENDS_FILE, LEGENDS_PLUS_FILE, passIdx, recs, temps,
                 created, legends_clean, legends_plus_clean, store, store0,
                 conn, dbLog, failedAt, exitStatus, flash>>
  /\ UNCHANGED notRun

\* build.py:471
UnlinkBase ==
  /\ pc = "finally1"
  /\ temps' = temps \ {legends_clean}
  /\ pc' = "finally2"
  /\ UNCHANGED <<dir, LEGENDS_FILE, LEGENDS_PLUS_FILE, passIdx, recs, created,
                 legends_clean, legends_plus_clean, store, store0, conn, dbLog,
                 outcome, failedAt, exitStatus, flash>>
  /\ UNCHANGED notRun

\* build.py:472
UnlinkPlus ==
  /\ pc = "finally2"
  /\ temps' = temps \ {legends_plus_clean}
  /\ pc' = "exit"
  /\ UNCHANGED <<dir, LEGENDS_FILE, LEGENDS_PLUS_FILE, passIdx, recs, created,
                 legends_clean, legends_plus_clean, store, store0, conn, dbLog,
                 outcome, failedAt, exitStatus, flash>>
  /\ UNCHANGED notRun

\* build.py:475-476: the value run_import returns is dropped; the process
\* ends with status 1 only when an exception reaches the interpreter
ExitStatus(o) == IF o = "raised" THEN "1" ELSE "0"

\* the child process ends; what its connection had not committed is gone
MainExit ==
  /\ pc = "exit"
  /\ exitStatus' = ExitStatus(outcome)
  /\ conn' = store
  /\ pc' = "exited"
  /\ UNCHANGED <<dir, LEGENDS_FILE, LEGENDS_PLUS_FILE, passIdx, recs, temps,
                 created, legends_clean, legends_plus_clean, store, store0,
                 dbLog, outcome, failedAt, flash>>
  /\ UNCHANGED notRun

\* worlds.py:144-149: subprocess.run(timeout=600) kills the child when the
\* timeout expires; a killed process runs no finally clause
Timeout ==
  /\ exitStatus = "running"
  /\ pc # "exited"
  /\ exitStatus' = "killed"
  /\ conn' = store
  /\ pc' = "exited"
  /\ UNCHANGED <<dir, LEGENDS_FILE, LEGENDS_PLUS_FILE, passIdx, recs, temps,
                 created, legends_clean, legends_plus_clean, store, store0,
                 dbLog, outcome, failedAt, flash>>
  /\ UNCHANGED notRun

\* worlds.py:151-172
Upload ==
  /\ pc = "exited"
  /\ flash = "none"
  /\ flash' = CASE exitStatus = "killed" -> "timeout"
                [] exitStatus = "0" -> "success"
                [] OTHER -> "failed"
  /\ UNCHANGED <<dir, LEGENDS_FILE, LEGENDS_PLUS_FILE, pc, passIdx, recs,
                 temps, created, legends_clean, legends_plus_clean, store,
                 store0, conn, dbLog, outcome, failedAt, exitStatus>>
  /\ UNCHANGED notRun

vars == <<runVars, sanVars, xmlVars, impVars, stoVars, wldVars, graphVars>>

Init == RunInit /\ SanIdle /\ XmlIdle /\ ImpIdle /\ StoIdle /\ WldIdle /\ GraphIdle

Next ==
  \/ FindXmlFiles
  \/ SanitizeBase
  \/ SanitizePlus
  \/ InitDb
  \/ ClearTables
  \/ WorldInfo
  \/ PassRecord
  \/ PassFail
  \/ PassCommit
  \/ Close
  \/ UnlinkBase
  \/ UnlinkPlus
  \/ MainExit
  \/ Timeout
  \/ Upload

Spec == Init /\ [][Next]_vars

(***************************************************************************)
(* Properties of a run                                                     *)
(***************************************************************************)
Range(seq) == {seq[i] : i \in 1..Len(seq)}
Count(seq, e) == Cardinality({i \in 1..Len(seq) : seq[i] = e})
\* pass j has committed
Committed(j) == <<"commit", j>> \in Range(dbLog)
\* the rows the callbacks of pass j have written
WrittenBy(j) == {Row(j, n) : n \in 1..Count(dbLog, <<"insert", j>>)}
\* the child process has ended by itself (it was not killed)
Terminated == pc = "exited" /\ exitStatus \in {"0", "1"}
\* the pass that failed, 0 when none did
FailedPass == IF failedAt[1] = "pass" THEN failedAt[2] ELSE 0
BaseMissing == ~ \E f \in dir : HasLegends(f) /\ ~HasLegendsPlus(f)
PlusMissing == ~ \E f \in dir : HasLegendsPlus(f)
Running(tag) == pc = "pass" /\ Passes[passIdx].tag = tag

\* C1: a run that got past file location leaves, when it terminates, none
\* of the sanitized temp files it created on disk, wherever it failed.
C1_NoTempFileLeft ==
  Terminated /\ outcome # "false" => temps = {}

\* C2: when the base file or the extended file is not found, run_import
\* returns before it creates a temp file and before any database call, and
\* the store is what it was before the run.
C2_MissingInputNoAction ==
  (pc # "find" /\ (BaseMissing \/ PlusMissing)) =>
    /\ created = {}
    /\ dbLog = <<>>
    /\ store = store0
    /\ conn = store0
    /\ pc \in {"exit", "exited"}
    /\ exitStatus # "killed" => outcome = "false"

C2_Witness ==
  /\ Terminated
  /\ dir = {BaseName, OtherName}
  /\ store0 # {}
  /\ store = store0

\* C3: when pass k fails, no later pass runs, the rows committed by the
\* passes before k stay in the store, and once the run has ended no row
\* written by pass k is in the store or seen by any connection.
C3_FailedPassDiscarded ==
  FailedPass \in 1..NumPasses =>
    /\ pc \in {"finally1", "finally2", "exit", "exited"}
    /\ \A j \in 1..NumPasses :
         /\ j > FailedPass => ~Committed(j) /\ Count(dbLog, <<"insert", j>>) = 0
         /\ j < FailedPass => Committed(j) /\ RowsOf(store, j) = WrittenBy(j)
    /\ ~Committed(FailedPass)
    /\ RowsOf(store, FailedPass) = {}
    /\ pc = "exited" => conn = store

C3_Witness ==
  /\ Terminated
  /\ FailedPass \in 2..NumPasses
  /\ WrittenBy(FailedPass) # {}
  /\ RowsOf(store, FailedPass - 1) # {}
  /\ RowsOf(store, FailedPass) = {}

\* C4 as stated: while a pass that reads the extended file runs, every pass
\* that reads the base file has committed.
C4_BaseBeforeExtended ==
  (pc = "pass" /\ Passes[passIdx].file = "plus") =>
    \A j \in 1..NumPasses : Passes[j].file = "base" => Committed(j)

\* C4 amended: while a pass that reads the extended file runs, the passes
\* for regions, underground regions, sites and artifacts have committed;
\* the historical figures pass has written nothing while landmasses, peaks,
\* the site update or entities run, it starts when these four have
\* committed, and it has committed while relationships, events or written
\* content run.
C4_BaseBeforeExtendedButFigures ==
  LET hf == PassOf("historical_figure")
      early == {"region", "underground_region", "site", "artifact"}
      before == {"landmass", "mountain_peak", "site_plus", "entity"}
      after == {"historical_event_relationship", "historical_event",
                "written_content"}
  IN /\ (pc = "pass" /\ Passes[passIdx].file = "plus") =>
          \A t \in early : Committed(PassOf(t))
     /\ (\E t \in before : Running(t)) =>
          ~Committed(hf) /\ RowsOf(conn, hf) = {}
     /\ Running("historical_figure") =>
          \A t \in before : Committed(PassOf(t))
     /\ (\E t \in after : Running(t)) => Committed(hf)

C4_Witness ==
  /\ Running("entity")
  /\ RowsOf(conn, PassOf("entity")) # {}
  /\ RowsOf(conn, PassOf("historical_figure")) = {}

\* C5: no row written by a pass is durable while that pass still streams;
\* once the pass has committed all the rows it wrote are durable; a pass
\* commits once.
C5_OneCommitPerPass ==
  /\ pc = "pass" => RowsOf(store, passIdx) = {}
  /\ \A j \in 1..NumPasses :
       /\ Committed(j) => RowsOf(store, j) = WrittenBy(j)
       /\ Count(dbLog, <<"commit", j>>) <= 1

C5_Witness ==
  /\ pc = "pass"
  /\ passIdx > 1
  /\ RowsOf(store, passIdx - 1) # {}
  /\ RowsOf(conn, passIdx) # {}
  /\ RowsOf(store, passIdx) = {}

\* C6: the caller reads the end of the child as a success (exit status 0,
\* 'Import completed successfully!') only when the import completed.
C6_FailureObserved ==
  (exitStatus = "0" \/ flash = "success") => outcome = "true"

\* C7: when the timeout of the caller expires during the import, the import
\* is reported as failed, the temp files the import created are deleted and
\* the rows of the passes that had committed stay in the store.
C7_TimeoutCleansUp ==
  (exitStatus = "killed" /\ outcome = "none" /\ flash # "none") =>
    /\ flash = "timeout"
    /\ temps = {}
    /\ \A j \in 1..NumPasses : Committed(j) => RowsOf(store, j) = WrittenBy(j)

\* the calls of the log that belong to a pass: its inserts and its commit
PassCalls == SelectSeq(dbLog, LAMBDA e : Len(e) = 2 /\ e[2] >= 1)
\* the order of the passes, by the element each streams
PassOrder ==
  <<"region", "underground_region", "site", "artifact", "landmass",
    "mountain_peak", "site_plus", "entity", "historical_figure",
    "historical_event_relationship", "historical_event", "written_content">>

\* C24: within one run the passes run in the order regions, underground
\* regions, sites, artifacts, landmasses, mountain peaks, site update,
\* entities, historical figures, relationships, events, written content;
\* no pass writes or commits after its commit or after a later pass has
\* started, a pass runs only when every pass before it has committed, and
\* after a failure no pass runs, writes or commits.
C24_PassesOnceInOrderNoRetry ==
  /\ [k \in 1..NumPasses |-> Passes[k].tag] = PassOrder
  /\ \A a, b \in 1..Len(PassCalls) :
       a < b => /\ PassCalls[a][2] <= PassCalls[b][2]
                /\ PassCalls[a][1] = "commit"
                     => PassCalls[a][2] < PassCalls[b][2]
  /\ pc = "pass" => \A j \in 1..(passIdx - 1) : Committed(j)
  /\ \A j \in 1..NumPasses :
       Count(dbLog, <<"insert", j>>) > 0 =>
         \A i \in 1..(j - 1) : Committed(i)
  /\ outcome = "raised" =>
       /\ pc \in {"finally1", "finally2", "exit", "exited"}
       /\ FailedPass >= 1 =>
            /\ ~Committed(FailedPass)
            /\ \A i \in 1..Len(PassCalls) : PassCalls[i][2] <= FailedPass

\* the third pass failed after the second and the third had written
C24_Witness ==
  /\ Terminated
  /\ FailedPass = 3
  /\ Count(dbLog, <<"insert", 2>>) = 1
  /\ Count(dbLog, <<"insert", 3>>) = 1
  /\ Committed(2)
  /\ Len(PassCalls) = 4

(***************************************************************************)
(* Properties of sanitize_xml_file                                         *)
(***************************************************************************)
\* the characters of the input file and of the temp file
InText == cp437_decode(sanIn)
OutText == utf8_decode(sanOut)
\* U+0000-U+0008, U+000B, U+000C, U+000E-U+001F
Disallowed == (0..8) \cup {11, 12} \cup (14..31)
Allowed(c) == c \notin Disallowed
Occurs(text, c) == Cardinality({i \in 1..Len(text) : text[i] = c})
\* the whole text with the disallowed characters taken out at once
Clean(text) == SelectSeq(text, Allowed)
\* places of text where a legacy declaration, a UTF-8 declaration stands
LegacyAt(text) == {i \in 1..Len(text) : encoding_pattern(text, i)}
Utf8At(text) ==
  {i \in 1..Len(text) :
     /\ i + Len(Utf8Decl) - 1 <= Len(text)
     /\ SubSeq(text, i, i + Len(Utf8Decl) - 1) = Utf8Decl}
\* the input starts with a declaration of the legacy encoding, which the
\* first chunk holds whole
DeclaresLegacy ==
  /\ encoding_pattern(InText, 1)
  /\ chunkSize >= Len(DeclDQ)

\* C8: the output holds no character of 0x00-0x08, 0x0B, 0x0C, 0x0E-0x1F,
\* in whichever chunk of the input it stood; every tab, LF and CR of the
\* input is in the output.
C8_NoDisallowedCharInOutput ==
  /\ \A i \in 1..Len(OutText) : OutText[i] \notin Disallowed
  /\ \A i \in 1..Len(sanOut) : sanOut[i] \notin Disallowed
  /\ sanPc = "done" =>
       \A c \in {9, 10, 13} : Occurs(OutText, c) = Occurs(InText, c)

C8_Witness ==
  /\ sanPc = "done"
  /\ \E i \in 1..Len(InText) : i <= chunkSize /\ InText[i] = 11
  /\ \E i \in 1..Len(InText) : i > chunkSize /\ InText[i] \in Disallowed
  /\ Occurs(OutText, 9) > 0
  /\ Occurs(OutText, 13) > 0

\* C9: for an input that declares the legacy encoding, the declaration is
\* rewritten to UTF-8, once, and every other occurrence of the legacy
\* declaration in the document stays as it is.
C9_OnlyDeclarationRewritten ==
  (sanPc = "done" /\ DeclaresLegacy) =>
    /\ SubSeq(OutText, 1, Len(Utf8Decl)) = Utf8Decl
    /\ Cardinality(Utf8At(OutText)) = 1
    /\ Cardinality(LegacyAt(OutText)) = Cardinality(LegacyAt(Clean(InText))) - 1

\* C10: the output is the decoded input with the disallowed characters
\* deleted and the declaration rewritten, and nothing else changed.
C10_OnlyDeletionsAndOneRewrite ==
  sanPc = "done" =>
    /\ DeclaresLegacy =>
         OutText = Utf8Decl \o SubSeq(Clean(InText), Len(DeclDQ) + 1,
                                      Len(Clean(InText)))
    /\ LegacyAt(Clean(InText)) = {} => OutText = Clean(InText)

\* the characters of the first chunk, of the chunks read after it
FirstChunkText == SubSeq(InText, 1, Min(chunkSize, sanPos))
LaterChunksText == SubSeq(InText, chunkSize + 1, sanPos)

\* C27: the removal of the control characters does not depend on how the
\* input is cut into chunks: whatever the chunk size, after every turn of
\* the loop the output is the text read so far with the disallowed
\* characters taken out of it at once, the declaration rewrite applied to
\* what is left of the first chunk.
C27_RemovalIndependentOfChunks ==
  /\ OutText = encoding_pattern_sub(Clean(FirstChunkText), 1)
                \o Clean(LaterChunksText)
  /\ Len(OutText) - Len(Clean(SubSeq(InText, 1, sanPos)))
       = Len(encoding_pattern_sub(Clean(FirstChunkText), 1))
         - Len(Clean(FirstChunkText))
  /\ LegacyAt(Clean(FirstChunkText)) = {}
       => OutText = Clean(SubSeq(InText, 1, sanPos))

\* three chunks or more, two disallowed characters on either side of the
\* border between two chunks after the first
C27_Witness ==
  /\ sanPc = "done"
  /\ Len(sanIn) > 2 * chunkSize
  /\ \E i \in 1..(Len(InText) - 1) :
       /\ i >= 2 * chunkSize
       /\ i % chunkSize = 0
       /\ InText[i] \in Disallowed
       /\ InText[i + 1] \in Disallowed
  /\ Len(OutText) < Len(InText)

(***************************************************************************)
(* Properties of xml_to_dict and stream_elements                           *)
(***************************************************************************)
\* the children of elem the loop has taken that have the tag, in order
Taken(t) ==
  SelectSeq(SubSeq(elem.kids, 1, childIdx), LAMBDA k : k.tag = t)
TagsOf(kids) == {kids[i].tag : i \in 1..Len(kids)}
\* the text of a leaf as the dict holds it
TextOrEmpty(e) == IF e.text = None THEN <<"str", "">> ELSE <<"str", e.text>>
\* ids of the elements with the tag in the order the document opens them
RECURSIVE DocOrder(_, _)
RECURSIVE DocOrderOfKids(_, _, _)
DocOrderOfKids(kids, i, tag) ==
  IF i > Len(kids) THEN <<>>
  ELSE DocOrder(kids[i], tag) \o DocOrderOfKids(kids, i + 1, tag)
DocOrder(element, tag) ==
  (IF element.tag = tag THEN <<element.id>> ELSE <<>>)
  \o DocOrderOfKids(element.kids, 1, tag)

\* C11: at every point of the loop of xml_to_dict, a tag taken once maps to
\* the single value of that child, not to a list, and a tag taken n >= 2
\* times maps to the list of the n values in document order.
C11_ListPromotion ==
  xmlPc = "flatten" =>
    \A t \in Tags :
      LET occ == Taken(t)
      IN /\ Len(occ) = 0 => ~HasKey(result, t)
         /\ Len(occ) = 1 =>
              /\ HasKey(result, t)
              /\ ~IsList(Lookup(result, t))
              /\ Lookup(result, t) = child_value(occ[1])
         /\ Len(occ) >= 2 =>
              /\ HasKey(result, t)
              /\ IsList(Lookup(result, t))
              /\ Lookup(result, t)[2] =
                   [m \in 1..Len(occ) |-> child_value(occ[m])]

C11_Witness ==
  /\ xmlPc = "flatten"
  /\ childIdx = 3
  /\ Len(Taken("a")) = 3
  /\ Lookup(result, "a") =
       List(<< Str("1"), Str(""), Dict(<< <<"a", Str("1")>> >>) >>)

\* C12: when xml_to_dict has taken every child, the dict has one key per
\* distinct child tag; the value of a tag that occurs once is a dict with one
\* key per distinct tag of the child's children when the child has children,
\* and otherwise the child's text, the empty string when it has no text.
C12_Flattening ==
  (xmlPc = "flatten" /\ childIdx = Len(elem.kids)) =>
    /\ Range(Keys(result)) = TagsOf(elem.kids)
    /\ Len(result) = Cardinality(TagsOf(elem.kids))
    /\ \A t \in TagsOf(elem.kids) :
         Len(Taken(t)) = 1 =>
           LET child == Taken(t)[1]
               value == Lookup(result, t)
           IN IF Len(child.kids) > 0
              THEN /\ IsDict(value)
                   /\ Range(Keys(value[2])) = TagsOf(child.kids)
                   /\ Len(value[2]) = Cardinality(TagsOf(child.kids))
                   /\ Len(child.kids) = 1 =>
                        value[2][1][2] = TextOrEmpty(child.kids[1])
              ELSE value = TextOrEmpty(child)

C12_Witness ==
  /\ xmlPc = "flatten"
  /\ childIdx = Len(elem.kids)
  /\ elem.id = <<>>
  /\ result = << <<"a", Dict(<< <<"b", Str("")>> >>)>> >>

\* C13: the callback is called once for every element with the tag, in
\* document order, each time with the flattening of the element's whole
\* subtree, and the count returned is the number of calls.
C13_EveryElementInDocumentOrder ==
  xmlPc = "done" =>
    /\ count = Len(xmlCalls)
    /\ xmlCalls = [k \in 1..Len(DocOrder(xmlDoc, xmlTag)) |->
                     xml_to_dict(Find(xmlDoc, DocOrder(xmlDoc, xmlTag)[k]))]

(***************************************************************************)
(* Properties of the callbacks of the passes                               *)
(***************************************************************************)
\* the callback has been called; the last call returned
Called == impN > 0
Completed == Called /\ ~impRaised

\* the statements of the last call and the keys of its record
Stmts == Callback(importer, impRec)
Has(k) == HasKey(impRec[2], k)

\* the occurrences a key holds: the items of a list, the value otherwise
Occ(v) == IF IsList(v) THEN v[2] ELSE <<v>>

\* every value the record carries under a key read with data.get(key) is a
\* text, and so is every occurrence of style
TextOnly ==
  /\ \A i \in 1..Len(impRec[2]) :
       impRec[2][i][1] \in Range(ScalarKeys(importer))
         => IsStr(impRec[2][i][2])
  /\ (importer = "import_content" /\ Has("style"))
       => \A i \in 1..Len(Occ(Lookup(impRec[2], "style"))) :
            IsStr(Occ(Lookup(impRec[2], "style"))[i])

\* the first statement of the last call is a plain INSERT of an id its table
\* held already
RepeatedInsert ==
  /\ Stmts # <<>>
  /\ Stmts[1].op = "insert"
  /\ Conflicts(impBefore[Stmts[1].table], Stmts[1].row,
               Stmts[1].table \in UniqueId)

\* C14: a callback completes without raising on every record whose values
\* are texts, whichever of the keys it reads the record lacks, the id
\* included (a record that repeats an id under a plain INSERT aside: that
\* error comes from the id the record carries, not from a key it lacks)
C14_MissingKeysNeverRaise ==
  (Called /\ TextOnly /\ ~RepeatedInsert) => ~impRaised

\* an event record that lacks every key was stored
C14_Witness ==
  /\ Completed
  /\ importer = "import_event"
  /\ impRec = Dict(<<>>)
  /\ Len(db["historical_events"]) = 1

\* the key a column of the first statement is read from
SourceKey(c) == IF c = "author_hfid" THEN "author" ELSE c

\* the first statement of the last call has left its values in its table
StoredMain ==
  LET s == Stmts[1]
  IN IF s.op = "update"
     THEN \A i \in 1..Len(db[s.table]) :
            db[s.table][i].id = s.key
              => \A c \in DOMAIN s.row : db[s.table][i][c] = s.row[c]
     ELSE \E i \in 1..Len(db[s.table]) : db[s.table][i] = s.row

\* the repeatable elements a callback reads and the table each goes to
Repeatables(name) ==
  CASE name = "import_site_plus" -> {"structure"}
    [] name = "import_entity" ->
         {"entity_position", "entity_position_assignment"}
    [] name = "import_hf" -> {"entity_link", "site_link"}
    [] name = "import_content" -> {"style", "reference"}
    [] OTHER -> {}

ChildTable(f) ==
  CASE f = "structure" -> "structures"
    [] f = "entity_position" -> "entity_positions"
    [] f = "entity_position_assignment" -> "entity_position_assignments"
    [] f = "entity_link" -> "hf_entity_links"
    [] f = "site_link" -> "hf_site_links"
    [] f = "style" -> "written_content_styles"
    [] f = "reference" -> "written_content_references"

\* the columns of a child row that are read from the occurrence, each with
\* its key, and the column that takes the id of the record
ChildColumns(f) ==
  CASE f = "structure" ->
         { <<"local_id", "id">>, <<"name", "name">>, <<"name2", "name2">>,
           <<"type", "type">> }
    [] f = "entity_position" -> { <<"position_id", "id">>, <<"name", "name">> }
    [] f = "entity_position_assignment" ->
         { <<"position_id", "position_id">>, <<"histfig_id", "histfig">> }
    [] f = "entity_link" ->
         { <<"entity_id", "entity_id">>, <<"link_type", "link_type">>,
           <<"link_strength", "link_strength">> }
    [] f = "site_link" -> { <<"site_id", "site_id">>, <<"link_type", "link_type">> }
    [] f = "style" -> {}
    [] f = "reference" -> { <<"ref_type", "type">>, <<"ref_id", "id">> }

ParentColumn(f) ==
  CASE f = "structure" -> "site_id"
    [] f \in {"entity_position", "entity_position_assignment"} -> "entity_id"
    [] f \in {"entity_link", "site_link"} -> "hfid"
    [] f \in {"style", "reference"} -> "written_content_id"

\* the occurrences of a repeatable element in the last record, in document
\* order; structure lies inside the structures elements of the record
RECURSIVE Flatten(_)
Flatten(seqs) ==
  IF seqs = <<>> THEN <<>> ELSE Head(seqs) \o Flatten(Tail(seqs))

Occurrences(f) ==
  IF f = "structure"
  THEN IF Has("structures")
       THEN Flatten([i \in 1..Len(Occ(Lookup(impRec[2], "structures"))) |->
              LET w == Occ(Lookup(impRec[2], "structures"))[i]
              IN IF IsDict(w) /\ HasKey(w[2], "structure")
                 THEN Occ(Lookup(w[2], "structure")) ELSE <<>>])
       ELSE <<>>
  ELSE IF Has(f) THEN Occ(Lookup(impRec[2], f)) ELSE <<>>

\* every occurrence is what the element is meant to be: a text for style,
\* an element with children for the others
Proper(f) ==
  \A i \in 1..Len(Occurrences(f)) :
    IF f = "style" THEN IsStr(Occurrences(f)[i])
    ELSE IsDict(Occurrences(f)[i])

\* the rows the last call added to a table
NewRows(t) == SubSeq(db[t], Len(impBefore[t]) + 1, Len(db[t]))

\* what a child row holds for a key its occurrence lacks, and for the id
\* its record lacks, is null
ChildAbsentIsNull ==
  \A f \in Repeatables(importer) :
    Proper(f) =>
      \A i \in 1..Len(NewRows(ChildTable(f))) :
        LET row == NewRows(ChildTable(f))[i]
        IN /\ ~Has("id") => row[ParentColumn(f)] = NoneV
           /\ i <= Len(Occurrences(f)) =>
                \A ck \in ChildColumns(f) :
                  ~HasKey(Occurrences(f)[i][2], ck[2]) => row[ck[1]] = NoneV

\* C15 as claimed: a column whose source key the record lacks is stored as
\* null, whatever the callback and the column
C15_AbsentIsNull ==
  (Completed /\ Stmts # <<>>) =>
    /\ StoredMain
    /\ \A c \in DOMAIN Stmts[1].row \ {"extra_data"} :
         ~Has(SourceKey(c)) => Stmts[1].row[c] = NoneV
    /\ ChildAbsentIsNull

\* the columns with a second source key
Fallback(c) ==
  CASE importer = "import_artifact" /\ c = "name" -> <<"name_string">>
    [] importer = "import_event" /\ c = "site_id" -> <<"site">>
    [] importer = "import_event" /\ c = "civ_id" -> <<"civ">>
    [] importer = "import_event" /\ c = "slayer_hfid" -> <<"slayer_hf">>
    [] OTHER -> <<>>

\* C15 amended: a column whose source key the record lacks is stored as
\* null, but for is_volcano, which is 0 when the key is absent and 1 when
\* it is present, and for the columns with a second source key, which take
\* the value of that key when the first is absent or an empty text
C15_AbsentIsNullButFallbacks ==
  (Completed /\ Stmts # <<>>) =>
    /\ StoredMain
    /\ \A c \in DOMAIN Stmts[1].row \ {"extra_data"} :
         ~Has(SourceKey(c)) =>
           Stmts[1].row[c] =
             IF c = "is_volcano" THEN PyInt(0)
             ELSE IF Fallback(c) # <<>> /\ Has(Fallback(c)[1])
             THEN Lookup(impRec[2], Fallback(c)[1])
             ELSE NoneV
    /\ (importer = "import_peak" /\ Has("is_volcano"))
         => Stmts[1].row.is_volcano = PyInt(1)
    /\ \A c \in DOMAIN Stmts[1].row \ {"extra_data"} :
         (Fallback(c) # <<>> /\ get(impRec, c) = Str(""))
           => Stmts[1].row[c] = get(impRec, Fallback(c)[1])
    /\ ChildAbsentIsNull

\* an artifact record without name and mat was stored with the text of
\* name_string as its name and a null mat
C15_Witness ==
  /\ Completed
  /\ importer = "import_artifact"
  /\ ~Has("name") /\ ~Has("mat") /\ Has("name_string")
  /\ db["artifacts"][1].name = Str("name_string")
  /\ db["artifacts"][1].mat = NoneV

\* the last record with every single occurrence of a repeatable element
\* made a list of one item
RECURSIVE Relist(_, _)
Relist(pairs, keys) ==
  [i \in 1..Len(pairs) |->
     LET k == pairs[i][1]
         v == pairs[i][2]
     IN IF k = "structures" /\ IsDict(v)
        THEN <<k, Dict(Relist(v[2], {"structure"}))>>
        ELSE IF k \in keys /\ (IF k = "style" THEN IsStr(v) ELSE IsDict(v))
        THEN <<k, List(<<v>>)>>
        ELSE pairs[i]]

\* the rows a record is to leave for a repeatable element: one for each
\* occurrence, in document order
RowsOfOccurrences(f) ==
  [i \in 1..Len(Occurrences(f)) |->
     child_row(f, get(impRec, "id"), Occurrences(f)[i])]

\* the tables are what a record with one-item lists leaves
SameAsOneItemList ==
  db = run(impBefore,
           Callback(importer,
                    Dict(Relist(impRec[2], Repeatables(importer))))).db

\* C16 as claimed: n occurrences of a repeatable element leave n child rows
\* in document order, and a single occurrence leaves what a list of one
\* item leaves
C16_OccurrencesToRows ==
  Completed =>
    /\ \A f \in Repeatables(importer) :
         Proper(f) => NewRows(ChildTable(f)) = RowsOfOccurrences(f)
    /\ SameAsOneItemList

\* the site record carries a non-empty id and one structures element
StructuresRead ==
  /\ Truthy(get(impRec, "id"))
  /\ Has("structures") => IsDict(Lookup(impRec[2], "structures"))

\* C16 amended: as claimed, but the structure occurrences of a site record
\* leave rows only when the record carries a non-empty id and one structures
\* element, and no row otherwise; a site record without a non-empty id
\* changes no table
C16_OccurrencesToRowsButSiteId ==
  Completed =>
    /\ \A f \in Repeatables(importer) :
         Proper(f) =>
           NewRows(ChildTable(f)) =
             IF f = "structure" /\ ~StructuresRead THEN <<>>
             ELSE RowsOfOccurrences(f)
    /\ SameAsOneItemList
    /\ (importer = "import_site_plus" /\ ~Truthy(get(impRec, "id")))
         => db = impBefore

\* a site record with an id and two structure occurrences has left two
\* structure rows in document order
C16_Witness ==
  /\ Completed
  /\ importer = "import_site_plus"
  /\ Len(Occurrences("structure")) = 2
  /\ Len(db["structures"]) = 2
  /\ db["structures"][1].local_id = Str("1")
  /\ db["structures"][2].local_id = Str("2")

\* the row of the last event
EventRow == db["historical_events"][Len(db["historical_events"])]

\* the items of the last record whose key is not a recognized field
Residual == SelectSeq(impRec[2], LAMBDA p : p[1] \notin known_fields)

\* C17: the payload stored with an event decodes to the items of the record
\* whose keys are not recognized fields, no more and no less, and it is null
\* when the record has no such key
C17_ResidualPayload ==
  (Completed /\ importer = "import_event") =>
    IF Residual = <<>> THEN EventRow.extra_data = NoneV
    ELSE /\ EventRow.extra_data # NoneV
         /\ json_loads(EventRow.extra_data) = Dict(Residual)

\* an event with a recognized key and custom_field has been stored, and its
\* payload decodes to custom_field alone
C17_Witness ==
  /\ Completed
  /\ importer = "import_event"
  /\ Has("year")
  /\ EventRow.extra_data # NoneV
  /\ json_loads(EventRow.extra_data)
       = Dict(<< <<"custom_field", Str(QuoteText)>> >>)

\* the column a recognized field is stored in
ColumnOf(k) ==
  CASE k = "site" -> "site_id"
    [] k = "civ" -> "civ_id"
    [] k = "slayer_hf" -> "slayer_hfid"
    [] OTHER -> k

\* C18: every key of an event record is recoverable with its value from the
\* stored row: from its column when the key is a recognized field, from the
\* decoded payload otherwise
C18_NoFieldDropped ==
  (Completed /\ importer = "import_event") =>
    \A i \in 1..Len(impRec[2]) :
      LET k == impRec[2][i][1]
          v == impRec[2][i][2]
      IN IF k \in known_fields THEN EventRow[ColumnOf(k)] = v
         ELSE /\ EventRow.extra_data # NoneV
              /\ <<k, v>> \in Range(json_loads(EventRow.extra_data)[2])

\* the callbacks of the dimension tables, and those that write a table with
\* ids by plain INSERT
DimensionImporters ==
  {"import_region", "import_underground", "import_site", "import_artifact",
   "import_entity", "import_hf"}
InsertImporters == {"import_landmass", "import_peak", "import_content"}

\* the table of the pass
MainTable == Callback(importer, Dict(<<>>))[1].table

\* the last record so far with the id of the k-th
LastWith(k) ==
  CHOOSE i \in k..Len(impDone) :
    /\ get(impDone[i], "id") = get(impDone[k], "id")
    /\ \A j \in (i + 1)..Len(impDone) :
         get(impDone[j], "id") # get(impDone[k], "id")

\* the table of the pass holds one row for each id the records so far
\* carried, with the values of the last record of that id
OneRowPerId ==
  /\ \A i, j \in 1..Len(db[MainTable]) :
       (db[MainTable][i].id # NoneV /\ db[MainTable][i].id = db[MainTable][j].id)
         => i = j
  /\ \A k \in 1..Len(impDone) :
       get(impDone[k], "id") # NoneV =>
         \E i \in 1..Len(db[MainTable]) :
           db[MainTable][i] = Callback(importer, impDone[LastWith(k)])[1].row

\* C19: after any sequence of records a dimension table holds one row for
\* each id, with the values of the last record of that id
C19_UpsertConverges ==
  (importer \in DimensionImporters /\ ~impRaised) => OneRowPerId

\* two site records with the same id have left one row, with the name of
\* the second
C19_Witness ==
  /\ importer = "import_site"
  /\ impN = 2
  /\ ~impRaised
  /\ get(impDone[1], "id") = Str("1")
  /\ get(impDone[1], "name") = Str("x")
  /\ get(impDone[2], "id") = Str("1")
  /\ get(impDone[2], "name") = Str("y")
  /\ Len(db["sites"]) = 1
  /\ db["sites"][1].name = Str("y")

\* C20: in landmasses, mountain_peaks and written_content a record that
\* repeats an id overwrites the row of that id: the pass does not fail, and
\* the table holds one row for each id, with the values of the last record
C20_RepeatedIdOverwrites ==
  (importer \in InsertImporters /\ Called /\ TextOnly) =>
    /\ ~impRaised
    /\ OneRowPerId

(***************************************************************************)
(* Properties of a run over the tables                                     *)
(***************************************************************************)
\* the pass with the callback name
PassWith(name) == CHOOSE k \in 1..Len(callbacks) : callbacks[k] = name
\* pass k of this run has committed: clear_tables and the world row commit
\* before the first pass
PassCommitted(k) == stoCommits >= k + 2
\* the tables after the records rs went through the callback name
RECURSIVE Streamed(_, _, _)
Streamed(d, name, rs) ==
  IF rs = <<>> THEN d
  ELSE Streamed(run(d, Callback(name, Head(rs))).db, name, Tail(rs))
\* the tables a run leaves on empty tables once the world row and its first
\* n passes have committed
RECURSIVE Imported(_)
Imported(n) ==
  IF n = 0
  THEN [EmptyStore EXCEPT !["world"] =
          << [name |-> Str("name"), altname |-> Str("altname")] >>]
  ELSE Streamed(Imported(n - 1), callbacks[n], files[n])

\* C23: foreign-key enforcement of the import connection is on when init_db
\* has returned and on again in every step that follows clear_tables: the
\* world row and every pass.
C23_ForeignKeysOffOnlyInClear ==
  /\ stoPc = "clear" => foreign_keys
  /\ stoPc \in {"world", "pass"} => foreign_keys

\* the rows of structures whose site_id is the id of no row of sites
Orphans(d) ==
  SelectSeq(d["structures"],
            LAMBDA r : \A i \in 1..Len(d["sites"]) : d["sites"][i].id # r.site_id)

\* C26: once the pass over the sites of the extended file has committed,
\* every row of structures carries in site_id the id of a row of sites.
C26_StructuresHaveTheirSite ==
  PassCommitted(PassWith("import_site_plus")) => Orphans(sto) = <<>>

\* the tables the callback of a pass inserts into (the pass over the sites
\* of the extended file updates sites, the table of an earlier pass)
TablesOfPass(name) ==
  CASE name = "import_region" -> {"regions"}
    [] name = "import_underground" -> {"underground_regions"}
    [] name = "import_site" -> {"sites"}
    [] name = "import_artifact" -> {"artifacts"}
    [] name = "import_landmass" -> {"landmasses"}
    [] name = "import_peak" -> {"mountain_peaks"}
    [] name = "import_site_plus" -> {"structures"}
    [] name = "import_entity" ->
         {"entities", "entity_positions", "entity_position_assignments"}
    [] name = "import_hf" ->
         {"historical_figures", "hf_entity_links", "hf_site_links"}
    [] name = "import_rel" -> {"hf_relationships"}
    [] name = "import_event" -> {"historical_events"}
    [] name = "import_content" ->
         {"written_content", "written_content_styles",
          "written_content_references"}

\* C22: clear_tables deletes from every table the run writes afterwards, and
\* what a completed run leaves in world.db is what its two files give on
\* empty tables, whatever world.db held before and however often the run
\* was made on these files before: a second run leaves the rows of the
\* first, none of them twice.
C22_RerunLeavesTheSameRows ==
  /\ "world" \in Range(tables)
  /\ \A k \in 1..Len(files) : \A i \in 1..Len(files[k]) :
       LET stmts == Callback(callbacks[k], files[k][i])
       IN \A j \in 1..Len(stmts) : stmts[j].table \in Range(tables)
  /\ stoPc = "done" =>
       /\ sto = Imported(Len(callbacks))
       /\ stoConn = sto

\* the second run on files with sites, structures and an event has completed
C22_Witness ==
  /\ stoPc = "done"
  /\ stoDone = 2
  /\ Len(sto["world"]) = 1
  /\ Len(sto["sites"]) = 2
  /\ Len(sto["structures"]) = 2
  /\ Len(sto["historical_events"]) = 1

\* C25: from the commit of clear_tables on, in every step of the run and
\* after a failure, world.db holds what the world row and the passes that
\* have committed give on empty tables, nothing else: the tables of the
\* passes that have not committed are empty.
C25_OnlyCommittedPasses ==
  stoCommits >= 1 =>
    /\ sto = IF stoCommits = 1 THEN EmptyStore ELSE Imported(stoCommits - 2)
    /\ \A k \in 1..Len(callbacks) :
         ~PassCommitted(k) =>
           \A t \in TablesOfPass(callbacks[k]) : sto[t] = <<>>
    /\ sto["site_properties"] = <<>>

\* the second run has failed in the pass over the landmasses, on the second
\* of two records with the same id, after a first run that had committed
\* four passes
C25_Witness ==
  /\ stoPc = "failed"
  /\ stoRuns = 2
  /\ stoPass = PassWith("import_landmass")
  /\ stoPos = 2
  /\ stoCommits = 6
  /\ Len(sto["regions"]) = 1
  /\ Len(sto["artifacts"]) = 1
  /\ sto["landmasses"] = <<>>

\* the site records of the base file, of the extended file
BaseRecords == files[PassWith("import_site")]
PlusRecords == files[PassWith("import_site_plus")]
\* the ids of the sites a file names
SiteIds(rs) ==
  {get(rs[i], "id") : i \in 1..Len(rs)} \ {NoneV, Str("")}
\* the last record of a file for a site
LastOf(rs, id) ==
  rs[CHOOSE i \in 1..Len(rs) :
       /\ get(rs[i], "id") = id
       /\ \A j \in (i + 1)..Len(rs) : get(rs[j], "id") # id]
\* the structures elements of a site record, and the structure elements
\* listed under them, in document order
Wrappers(rec) ==
  IF HasKey(rec[2], "structures")
  THEN Occ(Lookup(rec[2], "structures")) ELSE <<>>
Listed(rec) ==
  Flatten([i \in 1..Len(Wrappers(rec)) |->
             IF IsDict(Wrappers(rec)[i])
                /\ HasKey(Wrappers(rec)[i][2], "structure")
             THEN Occ(Lookup(Wrappers(rec)[i][2], "structure")) ELSE <<>>])
\* the structure rows the records of the extended file list for a site, all
\* of them or those of the records with one structures element
ListedRows(id, all) ==
  Flatten([i \in 1..Len(PlusRecords) |->
             IF /\ get(PlusRecords[i], "id") = id
                /\ all \/ Len(Wrappers(PlusRecords[i])) <= 1
             THEN [j \in 1..Len(Listed(PlusRecords[i])) |->
                     child_row("structure", id, Listed(PlusRecords[i])[j])]
             ELSE <<>>])
\* world.db holds one row for the site, with the columns of the first pass
\* from the base file and the owner columns from the extended file
OneSiteRow(id) ==
  LET rows == SelectSeq(sto["sites"], LAMBDA r : r.id = id)
      base == LastOf(BaseRecords, id)
      plus == LastOf(PlusRecords, id)
  IN /\ Len(rows) = 1
     /\ rows[1].name = get(base, "name")
     /\ rows[1].type = get(base, "type")
     /\ rows[1].coords = get(base, "coords")
     /\ rows[1].rectangle = get(base, "rectangle")
     /\ rows[1].civ_id = get(plus, "civ_id")
     /\ rows[1].cur_owner_id = get(plus, "cur_owner_id")
StructuresOfSite(id) ==
  SelectSeq(sto["structures"], LAMBDA r : r.site_id = id)
BothSitePasses == PassCommitted(PassWith("import_site_plus"))

\* C21 as claimed: when both passes over the sites have committed, a site
\* of both files has one row, with name, type, coords and rectangle of the
\* base file and civ_id and cur_owner_id of the extended file, and the
\* structures rows of the site are the structures the extended file lists
\* under it.
C21_TwoPassSite ==
  BothSitePasses =>
    \A id \in SiteIds(BaseRecords) \cap SiteIds(PlusRecords) :
      /\ OneSiteRow(id)
      /\ StructuresOfSite(id) = ListedRows(id, TRUE)

\* C21 amended: as claimed, where the values are those of the last record
\* of each file for the site and the structures are those listed in the
\* records of the site that carry one structures element; a record with
\* more than one structures element leaves no structure row.
C21_TwoPassSiteOneStructuresElement ==
  BothSitePasses =>
    \A id \in SiteIds(BaseRecords) \cap SiteIds(PlusRecords) :
      /\ OneSiteRow(id)
      /\ StructuresOfSite(id) = ListedRows(id, FALSE)

\* site 1 of the base file, named x then y, has its row with the name y, the
\* owner of the extended file and the two structures listed there
C21_Witness ==
  /\ stoPc = "done"
  /\ BaseRecords = <<BaseSite("1", "x"), BaseSite("1", "y")>>
  /\ Len(PlusRecords) = 1
  /\ Len(sto["sites"]) = 1
  /\ sto["sites"][1].name = Str("y")
  /\ sto["sites"][1].civ_id = Str("7")
  /\ sto["sites"][1].cur_owner_id = NoneV
  /\ Len(sto["structures"]) = 2
  /\ sto["structures"][2].local_id = Str("2")
  /\ sto["structures"][2].site_id = Str("1")

(***************************************************************************)
(* Properties of the requests on the worlds                                *)
(***************************************************************************)
IdsOf(rows) == {r.id : r \in rows}
\* the step completes a request of the handler
Completed_(handler) == tick' # tick /\ lastReq'[1] = handler

\* what a switch_world request that completes does to the table
SwitchEffect ==
  Completed_("switch_world") =>
    IF lastReq'[3] = "not_found" THEN worlds' = worlds
    ELSE /\ IdsOf(worlds') = IdsOf(worlds)
         /\ \A r \in worlds' : r.db_path = DbPath(r.id)
         /\ IdsOf(CurrentRows(worlds')) = {lastReq'[2]} \cap IdsOf(worlds)

\* C28: from a master table with at most one current world, whatever
\* switch_world and delete_world requests are made, at most one world has
\* is_current = 1; a switch_world for a world that is in the table when its
\* updates run leaves that world the only current one (none when the row
\* was deleted since the request read it), and a switch_world for an id
\* that is not in the table leaves every row as it is.
C28_OneCurrentWorld ==
  /\ [](Cardinality(CurrentRows(worlds)) <= 1)
  /\ [][SwitchEffect]_vars

\* world 2 was made current in a table of three worlds while a request to
\* delete it had read its row
C28_Witness ==
  /\ lastReq = <<"switch_world", "2", "success">>
  /\ IdsOf(worlds) = WorldIds
  /\ IdsOf(CurrentRows(worlds)) = {"2"}
  /\ <<"delete_world", "2">> \in pending

\* what a delete_world request that completes does to the table
DeleteEffect ==
  Completed_("delete_world") =>
    IF lastReq'[3] = "not_found" THEN worlds' = worlds /\ disk' = disk
    ELSE /\ worlds' = {r \in worlds : r.id # lastReq'[2]}
         /\ lastReq'[3] = "deleted_current" => CurrentRows(worlds') = {}
\* a world becomes current only by a switch_world that succeeds
OnlySwitchMakesCurrent ==
  (CurrentRows(worlds) = {} /\ CurrentRows(worlds') # {})
    => (Completed_("switch_world") /\ lastReq'[3] = "success")
\* while no world is current get_current_world and get_db return None
NoCurrentNoDb ==
  CurrentRows(worlds) = {} =>
    /\ get_current_world(worlds) = <<>>
    /\ lastReq[1] = "get_db" => lastReq[3] = <<>>

\* C29: a delete_world for a world of the table removes the row of that
\* world and changes no other row; when the world was the current one no
\* world is current afterwards, and while no world is current
\* get_current_world and get_db return None, which only a switch_world that
\* succeeds ends.
C29_DeleteRemovesOneRow ==
  /\ []NoCurrentNoDb
  /\ [][DeleteEffect /\ OnlySwitchMakesCurrent]_vars

\* the current world 1 was deleted, worlds 2 and 3 are left, and a get_db
\* after it returned None
C29_Witness ==
  /\ lastReq = <<"get_db", "none", <<>>>>
  /\ IdsOf(worlds) = {"2", "3"}
  /\ CurrentRows(worlds) = {}
  /\ DbPath("2") \in disk /\ DbPath("3") \in disk
  /\ DbPath("1") \notin disk

(***************************************************************************)
(* Properties of the relationship graph                                    *)
(***************************************************************************)
NodeIds == {nodes[i].id : i \in 1..Len(nodes)}
\* no figure is assigned to nodes twice
EachFigureOnce ==
  \A i, j \in 1..Len(nodes) : nodes[i].id = nodes[j].id => i = j
\* no node lies deeper than the requested depth or than the limit
DepthWithinLimit ==
  \A i \in 1..Len(nodes) :
    /\ nodes[i].depth >= 0
    /\ nodes[i].depth <= requested
    /\ nodes[i].depth <= MaxDepth
\* graph() has returned its response
GraphReturned == gPc \in {"done", "not_found"}

\* C30: on every relationship table, with rows that form a cycle, relate a
\* figure to itself or name a figure that does not exist, the traversal of
\* add_figure ends and graph() returns; each figure becomes a node at most
\* once, and no node has a depth above the requested depth or above 3.
C30_TraversalTerminates ==
  /\ [](EachFigureOnce /\ DepthWithinLimit)
  /\ [](Len(stack) <= MaxDepth + 2)
  /\ <>GraphReturned

\* the graph of figure 1 on the table with all rows of the pool, the cycle
\* and the self-relationship among them, asked with a depth beyond the
\* limit: the chain is cut after the figure at depth 3
C30_Witness ==
  /\ gPc = "done"
  /\ rels = RelPool
  /\ figure_id = 1
  /\ requested = MaxDepth + 4
  /\ NodeIds = 1..(MaxDepth + 1)
  /\ \E i \in 1..Len(nodes) : nodes[i].depth = MaxDepth

\* no run: the state of a run stays as it is at the start
RunIdle ==
  /\ dir = {}
  /\ LEGENDS_FILE = None
  /\ LEGENDS_PLUS_FILE = None
  /\ pc = "idle"
  /\ passIdx = 0
  /\ recs = 0
  /\ temps = {}
  /\ created = {}
  /\ legends_clean = None
  /\ legends_plus_clean = None
  /\ store0 = {}
  /\ store = {}
  /\ conn = {}
  /\ dbLog = <<>>
  /\ outcome = "none"
  /\ failedAt = <<"none", 0>>
  /\ exitStatus = "running"
  /\ flash = "none"

InitSan == SanInit /\ RunIdle /\ XmlIdle /\ ImpIdle /\ StoIdle /\ WldIdle /\ GraphIdle

NextSan ==
  \/ SanChunk
  \/ SanEof

SpecSan == InitSan /\ [][NextSan]_vars

InitXml == XmlInit /\ RunIdle /\ SanIdle /\ ImpIdle /\ StoIdle /\ WldIdle /\ GraphIdle

NextXml ==
  \/ XmlNextEvent
  \/ XmlChild
  \/ XmlCallback
  \/ XmlEnd

SpecXml == InitXml /\ [][NextXml]_vars

InitImp == ImpInit /\ RunIdle /\ SanIdle /\ XmlIdle /\ StoIdle /\ WldIdle /\ GraphIdle

NextImp ==
  \/ ImportRegion
  \/ ImportUnderground
  \/ ImportSite
  \/ ImportArtifact
  \/ ImportLandmass
  \/ ImportPeak
  \/ ImportSitePlus
  \/ ImportEntity
  \/ ImportHf
  \/ ImportRel
  \/ ImportEvent
  \/ ImportContent

SpecImp == InitImp /\ [][NextImp]_vars

InitSto == StoInit /\ RunIdle /\ SanIdle /\ XmlIdle /\ ImpIdle /\ WldIdle /\ GraphIdle

NextSto ==
  \/ StoInitDb
  \/ StoClearTables
  \/ StoWorld
  \/ StoCallback
  \/ StoCommit
  \/ StoRerun

SpecSto == InitSto /\ [][NextSto]_vars

InitWld == WldInit /\ RunIdle /\ SanIdle /\ XmlIdle /\ ImpIdle /\ StoIdle /\ GraphIdle

NextWld ==
  \/ WorldSelect
  \/ SwitchWorld
  \/ DeleteWorld
  \/ GetDb

SpecWld == InitWld /\ [][NextWld]_vars

InitGraph ==
  GraphInit /\ RunIdle /\ SanIdle /\ XmlIdle /\ ImpIdle /\ StoIdle /\ WldIdle
NextGraph ==
  \/ GraphNotFound
  \/ GraphStart
  \/ AddFigureSkip
  \/ AddFigureMissing
  \/ AddFigureNode
  \/ AddFigureRel
  \/ AddFigureReturn
  \/ GraphResponse
\* the request is served by a thread that keeps running
SpecGraph == InitGraph /\ [][NextGraph]_vars /\ WF_vars(NextGraph)
====
